---- MODULE Spec2Model ----
(***************************************************************************)
(* State-machine model of the autonomous trading bot (Ethereum Sepolia):   *)
(* scheduler (mainLoop driven by setInterval), price and balance engines,  *)
(* risk manager, execution engine, decision cascade and the dashboard's    *)
(* control and config endpoints.                                           *)
(*                                                                         *)
(* Fixed-point units (the source uses IEEE doubles):                       *)
(*   balances            1e-4 token   (0.015 ETH = 150)                    *)
(*   order amounts       1e-6 token   (balance * percent)                  *)
(*   signals, fractions  percent      (0.35 = 35)                          *)
(*   prices              whole USDC per token                              *)
(*   portfolio value     1e-4 USDC                                         *)
(*   gas price           gwei                                              *)
(*   currentDrawdown     whole percent (rounded down)                      *)
(*   wall clock          half hours   (one hour = 2)                       *)
(* Comparisons of products are cross-multiplied, so that no rounding is    *)
(* introduced by the scaling.                                              *)
(***************************************************************************)
EXTENDS Integers, Sequences, FiniteSets, TLC

VARIABLES
  running,            \* state.running
  ethBalance, wethBalance, linkBalance, usdcBalance,
  ethPrice, linkPrice,
  ethPriceHistory, linkPriceHistory,
  indicators,         \* state.indicators and emaState, as the composite they determine
  signals,            \* state.signals: [eth, link]
  lastBlock, lastTradeBlock, tradesExecuted, tradeHistory,
  portfolioPeakUSD, currentDrawdown, drawdownHalted,
  gasPrice,
  config,             \* state.config
  chain,              \* block height of the ledger (environment)
  now,                \* Date.now() (environment); all ticks of a run fall into one half hour
  sources,            \* what the Balance Source and the Price Source deliver in this run
  boot,               \* position of start()
  pc,                 \* position of each mainLoop invocation
  order,              \* the instruction an invocation has dispatched
  emitted,            \* instructions dispatched by the current executeStrategy call
  risk,               \* what the latest checkRisk call returned, and for which tick
  skipped,            \* height observed by the latest invocation that returned at the height check
  failed,             \* the awaited reads that failed in a watched tick
  begin,              \* the state a watched tick started from
  view,               \* the first response of GET /api/state
  botState,           \* the state object of the statistics dashboard (dashboard.js)
  reply,              \* the latest response of POST /api/control, per server
  reb                 \* the rebalancing bot: its state object, blockCount, timers, invocations

balVars   == <<ethBalance, wethBalance, linkBalance, usdcBalance>>
priceVars == <<ethPrice, linkPrice, ethPriceHistory, linkPriceHistory, indicators, signals>>
tradeVars == <<lastTradeBlock, tradesExecuted, tradeHistory>>
riskVars  == <<portfolioPeakUSD, currentDrawdown, drawdownHalted>>
envVars   == <<chain, now, sources>>
procVars  == <<pc, order, emitted>>
obsVars   == <<risk, skipped, failed, begin, view>>
\* the trading bot and its observers
botVars == <<running, balVars, priceVars, lastBlock, tradeVars, riskVars, gasPrice,
             config, envVars, boot, procVars, obsVars>>
\* the responses to control requests, and the rebalancing bot
sideVars == <<reply, reb>>
vars == <<botVars, botState, sideVars>>

----------------------------------------------------------------------------
\* Bounds of the model

\* mainLoop invocations that may be in flight at once
MaxInv == 2
\* price samples an indicator run records per asset
MaxSamples == 6
\* latest wall-clock reading of an indicator run
MaxClock == 1
\* highest block height the ledger reaches
MaxBlock == 12

Inv == 1..MaxInv
\* height of the ledger when the process starts
StartHeights == {11}

----------------------------------------------------------------------------
\* Program constants

CONFIG ==
  [ minTradeETH |-> 50, gasReserveETH |-> 150, slippageBps |-> 300, maxPositionPct |-> 60,
    maxDrawdownPct |-> 15, cooldownBlocks |-> 10, maxTradesPerHour |-> 6,
    smaFast |-> 10, smaSlow |-> 30, emaFast |-> 12, emaSlow |-> 26, macdSignal |-> 9,
    rsiPeriod |-> 14, bbPeriod |-> 20, bbStdDev |-> 2,
    minConfluence |-> 35 ]

\* tradeHistory capacity
TradeHistoryCap == 100
\* price history capacity
PriceHistoryCap == 500
\* gas ceiling (50e9 wei)
GasCeiling == 50
\* 3600000 ms
OneHour == 2
\* fixed threshold of the risk-off rule (-0.2)
RiskOffThreshold == 20

----------------------------------------------------------------------------
\* Inputs delivered by the collaborators

\* an awaited call resolves with a value of S or rejects
Outcomes(S) == {[ok |-> TRUE, val |-> v] : v \in S} \cup {[ok |-> FALSE]}

\* Balance Source: [eth, weth, link, usdc]
BalanceProfiles ==
  { [eth |-> 400, weth |-> 12,  link |-> 5000, usdc |-> 40000],
    [eth |-> 100, weth |-> 100, link |-> 200, usdc |-> 0] }

\* token reads (balanceOf) that fail while getBalance succeeds
TokenReads == {{}}

\* Price Source: decoded pool price (0 when the decoded ratio is not positive)
EthPrices  == {2000}
LinkPrices == {10}

\* composites that the indicator snapshots of the two assets can determine
SignalProfiles ==
  { [eth |-> 0, link |-> 0], [eth |-> 40, link |-> 0], [eth |-> -30, link |-> -30] }

\* a run in which every token read succeeds and every decoded price is positive
Sources ==
  [balances |-> BalanceProfiles, tokenReads |-> TokenReads, eth |-> EthPrices, link |-> LinkPrices,
   signals |-> SignalProfiles]

\* a run in which the WETH balanceOf read can fail and the WETH/USDC pool can
\* decode to a price that is not positive
FaultySources ==
  [balances |-> BalanceProfiles, tokenReads |-> {{}, {"weth"}}, eth |-> {2000, 0},
   link |-> LinkPrices, signals |-> SignalProfiles]

\* Fee Oracle
GasPrices == {20}

\* POST /api/control bodies
ControlActions == {"start", "stop", "reset-drawdown", "pause"}

\* POST /api/config bodies
ConfigBodies == { [smaSlow |-> 2, cooldownBlocks |-> 2] }

\* dashboard.js: the module-level botState ({isRunning, balances, config})
BotState ==
  [ isRunning |-> FALSE, ethBalance |-> 0, wethBalance |-> 0, linkBalance |-> 0,
    config |-> [minTradeAmount |-> 100, gasReserve |-> 200, volatilityThreshold |-> 5,
                enabled |-> TRUE] ]

\* dashboard.js: POST /api/config bodies
DashBodies ==
  { [minTradeAmount |-> 200], [gasReserve |-> 300], [volatilityThreshold |-> 10],
    [minTradeAmount |-> 500, gasReserve |-> 100], [enabled |-> FALSE],
    [volatilityThreshold |-> 20, enabled |-> FALSE] }

\* dashboard.js: POST /api/control bodies
DashActions == {"start", "stop", "pause"}

\* dashboard.js: what the reads of updateStats deliver: [eth, weth, link]
DashBalances ==
  { [eth |-> 400, weth |-> 12, link |-> 5000], [eth |-> 100, weth |-> 100, link |-> 200],
    [eth |-> 100, weth |-> 0, link |-> 0] }

----------------------------------------------------------------------------
\* Helpers

Min(a, b) == IF a < b THEN a ELSE b
Max(a, b) == IF a > b THEN a ELSE b
Abs(x) == IF x < 0 THEN -x ELSE x

\* a / b (b > 0), rounded to the nearest unit
RoundDiv(a, b) == (2 * a + b) \div (2 * b)

NoOrder == [kind |-> "none"]

NoRisk == [called |-> FALSE]

getPortfolioUSD(b, ep, lp) == (b.eth + b.weth) * ep + b.link * lp + b.usdc

curBal == [eth |-> ethBalance, weth |-> wethBalance, link |-> linkBalance, usdc |-> usdcBalance]

\* the `state` object as GET /api/state serialises it
stateView ==
  [ running |-> running, balances |-> curBal, ethPrice |-> ethPrice, linkPrice |-> linkPrice,
    ethPriceHistory |-> ethPriceHistory, linkPriceHistory |-> linkPriceHistory,
    indicators |-> indicators, signals |-> signals,
    lastBlock |-> lastBlock, lastTradeBlock |-> lastTradeBlock,
    tradesExecuted |-> tradesExecuted, tradeHistory |-> tradeHistory,
    portfolioPeakUSD |-> portfolioPeakUSD, currentDrawdown |-> currentDrawdown,
    drawdownHalted |-> drawdownHalted, gasPrice |-> gasPrice, config |-> config ]

\* `begin` of an invocation whose tick is not watched, and of one that is
\* watched and has not passed the height check yet
NoTick == [watched |-> FALSE]
Watched == [watched |-> TRUE]

NoView == [served |-> FALSE]

\* no control request has been answered yet
NoReply == [bot |-> [status |-> 0, action |-> "none"], dashboard |-> [status |-> 0, action |-> "none"]]

----------------------------------------------------------------------------
\* Rebalancing bot (part_001): constants and the state after runBot's first read

\* CONFIG, amounts in 1e-3 token, volatilityThreshold in percent
rebCONFIG ==
  [ minTradeAmount |-> 10, gasReserve |-> 20, volatilityWindow |-> 20,
    volatilityThreshold |-> 5 ]

\* what the three reads of updateBalances deliver: [eth, weth, link]; a failed
\* balanceOf read delivers 0 for its token
RebBalances ==
  { [eth |-> 100, weth |-> 0, link |-> 0], [eth |-> 100, weth |-> 50, link |-> 100],
    [eth |-> 25, weth |-> 0, link |-> 500] }

\* delays of the two setTimeout calls, in ms
NormalDelay == 1000
ErrorDelay == 5000

\* the state object, blockCount, the pending timers of checkAndTrade, the
\* position of each checkAndTrade invocation, and how the latest one ended;
\* runBot has read the balances once and called checkAndTrade()
RebState ==
  [ ethBalance |-> 100, wethBalance |-> 0, linkBalance |-> 0,
    priceHistory |-> <<>>, lastBlock |-> 0, tradesExecuted |-> 0,
    blockCount |-> 0, timers |-> <<>>,
    pc |-> [i \in Inv |-> IF i = 1 THEN "block" ELSE "idle"],
    outcome |-> "none" ]

----------------------------------------------------------------------------
\* Signal generator, as the scheduling specifications see it: the composite only

\* updateIndicators: the snapshot changes with every appended sample; the
\* composite it determines (c) is drawn from the profiles of the run
updateComposite(ind, asset, c) == [ind EXCEPT ![asset] = c]

\* generateSignal: neutral until smaSlow samples exist, afterwards the
\* composite determined by the indicator snapshot
compositeSignal(ind, asset, prices) ==
  IF Len(prices) < config.smaSlow THEN 0 ELSE ind[asset]

pushPrice_noShift(hist, t, p) == Append(hist, [time |-> t, price |-> p])

\* push of the sample { time, price } into a bounded price history
pushPrice(hist, t, p) ==
  LET h == Append(hist, [time |-> t, price |-> p])
  IN IF Len(h) > PriceHistoryCap THEN Tail(h) ELSE h

----------------------------------------------------------------------------
\* Technical indicators and signal generator, as computed
\*
\* Units: prices, averages, bands and EMAs in 1/Unit USDC; RSI in 1e-2 points
\* (50 = 5000); %B in 1e-4 (0.5 = 5000); sub-signals and composite in percent.
\* A quotient is rounded to the nearest unit.  The operations of the EMA chain
\* (calcEMA, MACD) each round their result to Precision significant bits, as
\* every operation on a Number rounds to 53.

\* significant bits of a Number
Precision == 8

\* indicator units per USDC
Unit == 2^10

null == <<>>

BitLen(x) == CHOOSE n \in 0..30 : x < 2^n /\ (n = 0 \/ x >= 2^(n - 1))

\* num / den (num >= 0, den > 0) rounded to the nearest integer, ties to even
RoundEven(num, den) ==
  LET lo == num \div den
      r  == num % den
  IN IF 2 * r > den \/ (2 * r = den /\ lo % 2 = 1) THEN lo + 1 ELSE lo

\* x rounded to Precision significant bits
fl(x) ==
  LET a == Abs(x)
      q == 2^Max(BitLen(a) - Precision, 0)
      m == RoundEven(a, q) * q
  IN IF x < 0 THEN -m ELSE m

\* the rounded product x * c of two Numbers
flMul(x, c) ==
  LET z == Abs(x) * Abs(c)
      q == Max(2^Max(BitLen(z) - Precision, 0), Unit)
      m == RoundEven(z, q) * (q \div Unit)
  IN IF (x < 0) # (c < 0) THEN -m ELSE m

\* the rounded quotient a / b of two positive integers
flDiv(a, b) ==
  LET q == 2^Max(BitLen((a * Unit) \div b) - Precision, 0)
  IN RoundEven(a * Unit, b * q) * q

clamp_none(lo, hi, x) == x

\* Math.max(lo, Math.min(hi, x))
clamp(lo, hi, x) == Max(lo, Min(hi, x))

clampPctB_none(pctB) == pctB

\* Math.max(0, Math.min(1, pctB))
clampPctB(pctB) == Max(0, Min(10000, pctB))

RECURSIVE SumOf(_)
SumOf(seq) == IF seq = <<>> THEN 0 ELSE Head(seq) + SumOf(Tail(seq))

\* prices.slice(-n).map(p => p.price)
lastValues(prices, n) == [k \in 1..n |-> prices[Len(prices) - n + k].price * Unit]

RECURSIVE Bisect(_, _, _)
Bisect(v, lo, hi) ==
  IF hi - lo <= 1 THEN lo
  ELSE LET mid == (lo + hi) \div 2
       IN IF mid * mid <= v THEN Bisect(v, mid, hi) ELSE Bisect(v, lo, mid)

\* Math.sqrt, rounded down
sqrt(v) == Bisect(v, 0, 46341)

calcSMA(prices, period) ==
  IF Len(prices) < period THEN null
  ELSE <<RoundDiv(SumOf(lastValues(prices, period)), period)>>

\* x || d
orElse(x, d) == IF x = null \/ x[1] = 0 THEN d ELSE x[1]

calcEMA_expand(newPrice, prevEMA, period) ==
  IF prevEMA = null THEN newPrice
  ELSE LET k == flDiv(2, period + 1)
       IN fl(flMul(newPrice, k) + flMul(prevEMA[1], fl(Unit + k)))

calcEMA_elapsed(newPrice, prevEMA, period) ==
  IF prevEMA = null THEN newPrice
  ELSE LET k == flDiv(2, period + now + 1)
       IN fl(flMul(newPrice, k) + flMul(prevEMA[1], fl(Unit - k)))

calcEMA(newPrice, prevEMA, period) ==
  IF prevEMA = null THEN newPrice
  ELSE LET k == flDiv(2, period + 1)
       IN fl(flMul(newPrice, k) + flMul(prevEMA[1], fl(Unit - k)))

gainOf(change) == IF change > 0 THEN change ELSE 0

lossOf(change) == IF change < 0 THEN Abs(change) ELSE 0

\* rs = avgLoss === 0 ? 100 : avgGain / avgLoss; rsi = 100 - 100 / (1 + rs)
rsiOf(avgGain, avgLoss) ==
  LET rs == IF avgLoss = 0 THEN 100 * 10000 ELSE RoundDiv(avgGain * 10000, avgLoss)
  IN 10000 - RoundDiv(10000 * 10000, 10000 + rs)

calcRSI(prices, period, prevAvgGain, prevAvgLoss) ==
  IF Len(prices) < period + 1 THEN [rsi |-> 5000, avgGain |-> null, avgLoss |-> null]
  ELSE LET recent == lastValues(prices, period + 1)
           change == [k \in 1..period |-> recent[k + 1] - recent[k]]
       IN IF prevAvgGain = null
          THEN LET avgGain == RoundDiv(SumOf([k \in 1..period |-> gainOf(change[k])]), period)
                   avgLoss == RoundDiv(SumOf([k \in 1..period |-> lossOf(change[k])]), period)
               IN [rsi |-> rsiOf(avgGain, avgLoss), avgGain |-> <<avgGain>>, avgLoss |-> <<avgLoss>>]
          ELSE LET avgGain == RoundDiv(prevAvgGain[1] * (period - 1) + gainOf(change[period]), period)
                   avgLoss == RoundDiv(prevAvgLoss[1] * (period - 1) + lossOf(change[period]), period)
               IN [rsi |-> rsiOf(avgGain, avgLoss), avgGain |-> <<avgGain>>, avgLoss |-> <<avgLoss>>]

calcBollingerBands(prices, period, stdDevMult) ==
  IF Len(prices) < period THEN null
  ELSE LET values   == lastValues(prices, period)
           mean     == RoundDiv(SumOf(values), period)
           variance == RoundDiv(SumOf([k \in 1..period |-> (values[k] - mean) * (values[k] - mean)]),
                                period)
           stdDev   == sqrt(variance)
           upper    == mean + stdDevMult * stdDev
           lower    == mean - stdDevMult * stdDev
           pctB     == IF stdDev = 0 THEN 5000
                       ELSE RoundDiv((values[period] - lower) * 10000, upper - lower)
       IN << [upper |-> upper, middle |-> mean, lower |-> lower, pctB |-> clampPctB(pctB)] >>

\* state.indicators[asset] and emaState[asset] before the first sample
FreshIndicators ==
  [ ind |-> [smaFast |-> 0, smaSlow |-> 0, ema12 |-> 0, ema26 |-> 0, rsi |-> 5000, macd |-> 0,
             macdSignal |-> 0, macdHist |-> 0, bbUpper |-> 0, bbMiddle |-> 0, bbLower |-> 0,
             bbPctB |-> 5000],
    es  |-> [ema12 |-> null, ema26 |-> null, macdEma9 |-> null, rsiAvgGain |-> null,
             rsiAvgLoss |-> null] ]

\* updateIndicators on the indicators s = [ind, es] of one asset
updateIndicators(s, prices) ==
  LET currentPrice == IF Len(prices) > 0 THEN prices[Len(prices)].price * Unit ELSE 0
      ema12     == calcEMA(currentPrice, s.es.ema12, config.emaFast)
      ema26     == calcEMA(currentPrice, s.es.ema26, config.emaSlow)
      macd      == fl(ema12 - ema26)
      macdEma9  == calcEMA(macd, s.es.macdEma9, config.macdSignal)
      rsiResult == calcRSI(prices, config.rsiPeriod, s.es.rsiAvgGain, s.es.rsiAvgLoss)
      bb        == calcBollingerBands(prices, config.bbPeriod, config.bbStdDev)
  IN [ ind |-> [smaFast |-> orElse(calcSMA(prices, config.smaFast), currentPrice),
                smaSlow |-> orElse(calcSMA(prices, config.smaSlow), currentPrice),
                ema12 |-> ema12, ema26 |-> ema26, rsi |-> rsiResult.rsi,
                macd |-> macd, macdSignal |-> macdEma9, macdHist |-> fl(macd - macdEma9),
                bbUpper  |-> IF bb # null THEN bb[1].upper  ELSE s.ind.bbUpper,
                bbMiddle |-> IF bb # null THEN bb[1].middle ELSE s.ind.bbMiddle,
                bbLower  |-> IF bb # null THEN bb[1].lower  ELSE s.ind.bbLower,
                bbPctB   |-> IF bb # null THEN bb[1].pctB   ELSE s.ind.bbPctB],
       es  |-> [ema12 |-> <<ema12>>, ema26 |-> <<ema26>>, macdEma9 |-> <<macdEma9>>,
                rsiAvgGain |-> rsiResult.avgGain, rsiAvgLoss |-> rsiResult.avgLoss] ]

NoDetails == [sma |-> 0, rsi |-> 0, macd |-> 0, bb |-> 0, trend |-> 0]

warmupGuard_offByOne(n, smaSlow) == n < smaSlow - 1

\* prices.length < state.config.smaSlow
warmupGuard(n, smaSlow) == n < smaSlow

\* generateSignal on the indicators s of one asset and its price history
generateSignal(s, prices) ==
  IF warmupGuard(Len(prices), config.smaSlow) THEN [composite |-> 0, details |-> NoDetails]
  ELSE LET ind == s.ind
           currentPrice == prices[Len(prices)].price * Unit
           sma   == IF ind.smaSlow > 0
                    THEN clamp(-100, 100, RoundDiv((ind.smaFast - ind.smaSlow) * 2000, ind.smaSlow))
                    ELSE 0
           rsi   == IF ind.rsi <= 3000 THEN RoundDiv((3000 - ind.rsi) * 100, 3000)
                    ELSE IF ind.rsi >= 7000 THEN -RoundDiv((ind.rsi - 7000) * 100, 3000)
                    ELSE 0
           macd  == IF ind.bbMiddle > 0
                    THEN clamp(-100, 100, RoundDiv(ind.macdHist * 10000, ind.bbMiddle))
                    ELSE 0
           bb    == -RoundDiv((ind.bbPctB - 5000) * 2, 100)
           trend == IF ind.smaSlow > 0
                    THEN clamp(-100, 100, RoundDiv((currentPrice - ind.smaSlow) * 1000, ind.smaSlow))
                    ELSE 0
           composite == RoundDiv(25 * sma + 20 * rsi + 20 * macd + 20 * bb + 15 * trend, 100)
       IN [composite |-> clamp(-100, 100, composite),
           details |-> [sma |-> sma, rsi |-> rsi, macd |-> macd, bb |-> bb, trend |-> trend]]

----------------------------------------------------------------------------
\* Risk manager

cooldownGuard_inclusive(lb, ltb, cd) == lb - ltb <= cd

cooldownGuard(lb, ltb, cd) == lb - ltb < cd

recentTrades == {k \in DOMAIN tradeHistory : tradeHistory[k].time > now - OneHour}

Issue(cond, name) == IF cond THEN <<name>> ELSE <<>>

push_shortCircuit(issues, issue) == IF issues # <<>> THEN issues ELSE issue

\* issues.push(...) of a guard that is evaluated whatever the guards before it found
push(issues, issue) == issues \o issue

rateLimitGuard_strict(n, limit) == n > limit

\* recentTrades.length >= state.config.maxTradesPerHour
rateLimitGuard(n, limit) == n >= limit

haltOn_reportOnly(halted, breach) == halted

\* state.drawdownHalted = true, under the breach test
haltOn(halted, breach) == halted \/ breach

\* checkRisk on balances b with peak, drawdown and halt flag as given
checkRisk(b, peak, dd, halted) ==
  LET portfolioUSD == getPortfolioUSD(b, ethPrice, linkPrice)
      peak1  == IF portfolioUSD > peak THEN portfolioUSD ELSE peak
      breach == peak1 > 0 /\ (peak1 - portfolioUSD) * 100 > config.maxDrawdownPct * peak1
      dd1    == IF peak1 > 0 THEN ((peak1 - portfolioUSD) * 100) \div peak1 ELSE dd
      i1 == Issue(breach, "MAX DRAWDOWN")
      i2 == push(i1, Issue(cooldownGuard(lastBlock, lastTradeBlock, config.cooldownBlocks),
                           "COOLDOWN"))
      i3 == push(i2, Issue(rateLimitGuard(Cardinality(recentTrades), config.maxTradesPerHour),
                           "RATE LIMIT"))
      i4 == push(i3, Issue(gasPrice > GasCeiling, "HIGH GAS"))
      issues == push(i4, Issue(b.eth < config.gasReserveETH, "LOW GAS RESERVE"))
  IN [peak |-> peak1, drawdown |-> dd1, halted |-> haltOn(halted, breach),
      issues |-> issues, ok |-> (issues = <<>>)]

----------------------------------------------------------------------------
\* Decision cascade of executeStrategy

\* dust floors of the signal rules, in 1e-6 token
Floor == [USDC |-> 500000, WETH |-> 500, LINK |-> 5000]

Rules == 1..9

frac_uncapped(sig, cap) == Abs(sig)

\* Math.min(cap, Math.abs(sig))
frac(sig, cap) == Min(cap, Abs(sig))

\* pct < maxPositionPct, where pct = value / portfolioUSD (0 when portfolioUSD = 0)
belowMaxPosition(value, portfolioUSD) ==
  IF portfolioUSD > 0 THEN value * 100 < config.maxPositionPct * portfolioUSD
                      ELSE 0 < config.maxPositionPct

\* the instruction rule r hands to the execution engine
Instr(r, b) ==
  LET es == signals.eth
      ls == signals.link
      sw(f, t, a) == [kind |-> "SWAP", from |-> f, to |-> t, amountIn |-> a, rule |-> r]
      wr(a)       == [kind |-> "WRAP", from |-> "ETH", to |-> "WETH", amountIn |-> a, rule |-> r]
  IN CASE r = 1 -> sw("USDC", "LINK", b.usdc * frac(ls, 50))
       [] r = 2 -> sw("WETH", "USDC", b.weth * frac(ls, 50))
       [] r = 3 -> wr((b.eth - config.gasReserveETH) * frac(ls, 50))
       [] r = 4 -> sw("LINK", "USDC", b.link * frac(ls, 50))
       [] r = 5 -> sw("USDC", "WETH", b.usdc * frac(es, 50))
       [] r = 6 -> wr((b.eth - config.gasReserveETH) * frac(es, 30))
       [] r = 7 -> sw("WETH", "USDC", b.weth * frac(es, 50))
       [] r = 8 -> sw("WETH", "USDC", b.weth * 30)
       [] r = 9 -> sw("LINK", "USDC", b.link * 30)

\* rule r matches: its signal threshold and its balance/sizing precondition hold
Fires(r, b) ==
  LET es == signals.eth
      ls == signals.link
      portfolioUSD == getPortfolioUSD(b, ethPrice, linkPrice)
      canWrap == b.eth > config.gasReserveETH + config.minTradeETH /\ b.weth < 10
  IN CASE r = 1 -> /\ ls > config.minConfluence
                   /\ b.usdc > 10000
                   /\ belowMaxPosition(b.link * linkPrice, portfolioUSD)
                   /\ Instr(1, b).amountIn > Floor.USDC
       [] r = 2 -> /\ ls > config.minConfluence
                   /\ b.weth > 10 /\ b.usdc < 10000
                   /\ Instr(2, b).amountIn > Floor.WETH
       [] r = 3 -> /\ ls > config.minConfluence
                   /\ canWrap
                   /\ Instr(3, b).amountIn > config.minTradeETH * 100
       [] r = 4 -> /\ ls < -config.minConfluence /\ b.link > 100
                   /\ Instr(4, b).amountIn > Floor.LINK /\ linkPrice > 0
       [] r = 5 -> /\ es > config.minConfluence
                   /\ b.usdc > 10000
                   /\ belowMaxPosition((b.eth + b.weth) * ethPrice, portfolioUSD)
                   /\ Instr(5, b).amountIn > Floor.USDC
       [] r = 6 -> /\ es > config.minConfluence
                   /\ canWrap
                   /\ Instr(6, b).amountIn > config.minTradeETH * 100
       [] r = 7 -> /\ es < -config.minConfluence /\ b.weth > 10
                   /\ Instr(7, b).amountIn > Floor.WETH
       [] r = 8 -> /\ es < -RiskOffThreshold /\ ls < -RiskOffThreshold
                   /\ b.weth > 10
       [] r = 9 -> /\ es < -RiskOffThreshold /\ ls < -RiskOffThreshold
                   /\ b.link > 100 /\ linkPrice > 0

\* x * (1 - bps / 10000), never below 0
withSlippage(x, bps) ==
  Max(0, (x \div 10000) * (10000 - bps) + RoundDiv((x % 10000) * (10000 - bps), 10000))

\* swapExact up to its first await: the router parameters of instruction o
\* (expectedOut and amountOutMinimum in 1e-6 of the token bought)
swapExact(o) ==
  LET expectedOut ==
        CASE o.from = "WETH" /\ o.to = "USDC" -> o.amountIn * ethPrice
          [] o.from = "USDC" /\ o.to = "WETH" ->
               IF ethPrice > 0 THEN RoundDiv(o.amountIn, ethPrice) ELSE 0
          [] o.from = "LINK" /\ o.to = "USDC" -> o.amountIn * linkPrice
          [] o.from = "USDC" /\ o.to = "LINK" ->
               IF linkPrice > 0 THEN RoundDiv(o.amountIn, linkPrice) ELSE 0
          [] OTHER -> 0
  IN [kind |-> o.kind, from |-> o.from, to |-> o.to, amountIn |-> o.amountIn, rule |-> o.rule,
      expectedOut |-> expectedOut,
      amountOutMinimum |-> withSlippage(expectedOut, config.slippageBps)]

\* the call executeStrategy makes for instruction o: swapExact or wrapETH
Dispatch(o) == IF o.kind = "SWAP" THEN swapExact(o) ELSE o

FirstRule_last(from, b) ==
  LET m == {r \in Rules : r >= from /\ Fires(r, b)}
  IN IF from = 0 \/ m = {} THEN 0 ELSE CHOOSE r \in m : \A q \in m : r >= q

\* first rule at or after `from` that matches, 0 when none does
FirstRule(from, b) ==
  LET m == {r \in Rules : r >= from /\ Fires(r, b)}
  IN IF from = 0 \/ m = {} THEN 0 ELSE CHOOSE r \in m : \A q \in m : r <= q

AfterDispatch_fallthrough(r) == IF r < 9 THEN r + 1 ELSE 0

\* where the cascade resumes once the order of rule r has completed:
\* every dispatch is followed by `return` (0 = leave executeStrategy)
AfterDispatch(r) == 0

----------------------------------------------------------------------------
\* Action fragments shared by start() and mainLoop()

\* Promise.all of updateBalances: a failed token read (the set `lost`) is
\* replaced by 0n, a failed getBalance rejects
BalanceReads ==
  {[ok |-> TRUE, val |-> [v EXCEPT !.weth = IF "weth" \in l THEN 0 ELSE @], lost |-> l] :
     v \in sources.balances, l \in sources.tokenReads}
  \cup {[ok |-> FALSE]}

\* the reads of a fetch outcome that did not deliver a value
Lost(kind, out) ==
  IF ~out.ok THEN {kind}
  ELSE IF kind = "balance" THEN (IF out.lost = {} THEN {} ELSE {"token"})
  ELSE IF kind = "price" /\ out.val = 0 THEN {"zero"}
  ELSE {}

\* updateBalances: a failed getBalance throws and leaves the balances alone
updateBalances(out) ==
  IF ~out.ok THEN UNCHANGED balVars
  ELSE /\ ethBalance' = out.val.eth   /\ wethBalance' = out.val.weth
       /\ linkBalance' = out.val.link /\ usdcBalance' = out.val.usdc

\* fetchPrices up to its second await: the WETH/USDC slot has been read
fetchPricesEth(out) ==
  IF ~out.ok THEN UNCHANGED priceVars
  ELSE /\ ethPrice' = out.val
       /\ UNCHANGED <<linkPrice, ethPriceHistory, linkPriceHistory, indicators, signals>>

\* fetchPrices from its second await to its end
fetchPricesLink(out, sp) ==
  IF ~out.ok THEN UNCHANGED priceVars
  ELSE LET eh   == IF ethPrice > 0 THEN pushPrice(ethPriceHistory, now, ethPrice) ELSE ethPriceHistory
           lh   == IF out.val > 0 THEN pushPrice(linkPriceHistory, now, out.val) ELSE linkPriceHistory
           ind1 == IF ethPrice > 0 THEN updateComposite(indicators, "eth", sp.eth) ELSE indicators
           ind2 == IF out.val > 0 THEN updateComposite(ind1, "link", sp.link) ELSE ind1
       IN /\ linkPrice' = out.val
          /\ ethPriceHistory' = eh
          /\ linkPriceHistory' = lh
          /\ indicators' = ind2
          /\ signals' = [eth  |-> compositeSignal(ind2, "eth", eh),
                         link |-> compositeSignal(ind2, "link", lh)]
          /\ UNCHANGED ethPrice

recordTrade_countSuccess(o, tx) ==
  LET h == Append(tradeHistory,
                  [time |-> now, type |-> o.kind, from |-> o.from, to |-> o.to,
                   amountIn |-> o.amountIn, tx |-> tx, block |-> lastBlock])
  IN /\ tradesExecuted' = IF tx = "success" THEN tradesExecuted + 1 ELSE tradesExecuted
     /\ lastTradeBlock' = lastBlock
     /\ tradeHistory' = IF Len(h) > TradeHistoryCap THEN Tail(h) ELSE h

recordTrade_noShift(o, tx) ==
  /\ tradesExecuted' = tradesExecuted + 1
  /\ lastTradeBlock' = lastBlock
  /\ tradeHistory' = Append(tradeHistory,
                            [time |-> now, type |-> o.kind, from |-> o.from, to |-> o.to,
                             amountIn |-> o.amountIn, tx |-> tx, block |-> lastBlock])

\* recordTrade; tx is the status of the mined transaction the record refers to
recordTrade(o, tx) ==
  LET h == Append(tradeHistory,
                  [time |-> now, type |-> o.kind, from |-> o.from, to |-> o.to,
                   amountIn |-> o.amountIn, tx |-> tx, block |-> lastBlock])
  IN /\ tradesExecuted' = tradesExecuted + 1
     /\ lastTradeBlock' = lastBlock
     /\ tradeHistory' = IF Len(h) > TradeHistoryCap THEN Tail(h) ELSE h

\* the cascade of executeStrategy from rule `from` on (0: return), on balances b
RunCascade(i, from, b) ==
  LET r == FirstRule(from, b)
  IN IF r = 0
     THEN /\ pc' = [pc EXCEPT ![i] = "idle"]
          /\ order' = [order EXCEPT ![i] = NoOrder]
          /\ emitted' = [emitted EXCEPT ![i] = 0]
     ELSE /\ pc' = [pc EXCEPT ![i] = IF Instr(r, b).kind = "WRAP" THEN "submit" ELSE "approve"]
          /\ order' = [order EXCEPT ![i] = Dispatch(Instr(r, b))]
          /\ emitted' = [emitted EXCEPT ![i] = @ + 1]

\* swapExact / wrapETH has returned to executeStrategy
Return(i) == RunCascade(i, AfterDispatch(order[i].rule), curBal)

\* bookkeeping of a step of invocation i in which the reads `kinds` failed
Observe(i, kinds) ==
  /\ failed' = [failed EXCEPT ![i] = IF begin[i] = NoTick THEN @ ELSE @ \cup kinds]
  /\ UNCHANGED <<begin, view>>

updatePeak_assign(portfolioUSD, peak) == portfolioUSD

\* if (portfolioUSD > state.portfolioPeakUSD) state.portfolioPeakUSD = portfolioUSD
updatePeak(portfolioUSD, peak) == IF portfolioUSD > peak THEN portfolioUSD ELSE peak

NoCall(peak, dd, halted) ==
  [go |-> FALSE, called |-> FALSE, peak |-> peak, drawdown |-> dd, halted |-> halted,
   issues |-> <<>>]

executeStrategyGate_autoRecover(b, peak, dd, halted) ==
  LET r == checkRisk(b, peak, dd, FALSE)
  IN IF ~running
     THEN NoCall(peak, dd, halted)
     ELSE [go |-> r.ok, called |-> TRUE, peak |-> r.peak, drawdown |-> r.drawdown,
           halted |-> r.halted, issues |-> r.issues]

executeStrategyGate_noHaltGuard(b, peak, dd, halted) ==
  LET r == checkRisk(b, peak, dd, halted)
  IN IF ~running
     THEN NoCall(peak, dd, halted)
     ELSE [go |-> r.ok, called |-> TRUE, peak |-> r.peak, drawdown |-> r.drawdown,
           halted |-> r.halted, issues |-> r.issues]

\* the guards of executeStrategy: running, halt flag, risk check
executeStrategyGate(b, peak, dd, halted) ==
  IF ~running \/ halted
  THEN NoCall(peak, dd, halted)
  ELSE LET r == checkRisk(b, peak, dd, halted)
       IN [go |-> r.ok, called |-> TRUE, peak |-> r.peak, drawdown |-> r.drawdown,
           halted |-> r.halted, issues |-> r.issues]

----------------------------------------------------------------------------
\* Initial state: the module-level `state` object, before start() has run

Init ==
  /\ running = FALSE
  /\ ethBalance = 0 /\ wethBalance = 0 /\ linkBalance = 0 /\ usdcBalance = 0
  /\ ethPrice = 0 /\ linkPrice = 0
  /\ ethPriceHistory = <<>> /\ linkPriceHistory = <<>>
  /\ indicators = [eth |-> 0, link |-> 0]
  /\ signals = [eth |-> 0, link |-> 0]
  /\ lastBlock = 0 /\ lastTradeBlock = 0 /\ tradesExecuted = 0 /\ tradeHistory = <<>>
  /\ portfolioPeakUSD = 0 /\ currentDrawdown = 0 /\ drawdownHalted = FALSE
  /\ gasPrice = 0
  /\ config = CONFIG
  /\ chain \in StartHeights
  /\ now = 0
  /\ sources = Sources
  /\ boot = "balances"
  /\ pc = [i \in Inv |-> "idle"]
  /\ order = [i \in Inv |-> NoOrder]
  /\ emitted = [i \in Inv |-> 0]
  /\ risk = NoRisk
  /\ skipped = 0
  /\ failed = [i \in Inv |-> {}]
  /\ begin = [i \in Inv |-> NoTick]
  /\ view = NoView
  /\ botState = BotState
  /\ reply = NoReply
  /\ reb = RebState

----------------------------------------------------------------------------
\* start(): initial data fetch, then the timer is armed and mainLoop called once

StartBalances ==
  /\ boot = "balances"
  /\ \E out \in BalanceReads : updateBalances(out)
  /\ boot' = "price1"
  /\ UNCHANGED <<running, priceVars, lastBlock, tradeVars, riskVars, gasPrice,
                 config, envVars, procVars, obsVars, botState, sideVars>>

StartPricesEth ==
  /\ boot = "price1"
  /\ \E out \in Outcomes(sources.eth) :
       /\ fetchPricesEth(out)
       /\ IF ~out.ok
          THEN boot' = "done" /\ pc' = [pc EXCEPT ![1] = "block"]
          ELSE boot' = "price2" /\ pc' = pc
  /\ UNCHANGED <<running, balVars, lastBlock, tradeVars, riskVars, gasPrice,
                 config, envVars, order, emitted, obsVars, botState, sideVars>>

StartPricesLink ==
  /\ boot = "price2"
  /\ \E out \in Outcomes(sources.link), sp \in sources.signals : fetchPricesLink(out, sp)
  /\ boot' = "done"
  /\ pc' = [pc EXCEPT ![1] = "block"]
  /\ UNCHANGED <<running, balVars, lastBlock, tradeVars, riskVars, gasPrice,
                 config, envVars, order, emitted, obsVars, botState, sideVars>>

----------------------------------------------------------------------------
\* mainLoop

\* setInterval(mainLoop, priceUpdateInterval): the timer starts an invocation
\* whether or not an earlier one is still awaiting I/O
TimerFire ==
  /\ boot = "done"
  /\ \E i \in Inv :
       /\ pc[i] = "idle"
       /\ \A j \in Inv : pc[j] = "idle" => i <= j
       /\ pc' = [pc EXCEPT ![i] = "block"]
  /\ UNCHANGED <<running, balVars, priceVars, lastBlock, tradeVars, riskVars,
                 gasPrice, config, envVars, boot, order, emitted, obsVars, botState, sideVars>>

heightCheck_nonStrict(blockNum, last) == blockNum < last

\* if (blockNum <= state.lastBlock) return
heightCheck(blockNum, last) == blockNum <= last

\* getBlockNumber resolves (with the ledger's height or the one before) or throws
GetBlockNumber(i) ==
  /\ pc[i] = "block"
  /\ \E out \in Outcomes({chain, chain - 1}) :
       IF ~out.ok
       THEN /\ pc' = [pc EXCEPT ![i] = "idle"]
            /\ UNCHANGED <<lastBlock, skipped, begin>>
       ELSE IF heightCheck(out.val, lastBlock)
       THEN /\ pc' = [pc EXCEPT ![i] = "idle"]
            /\ skipped' = out.val /\ lastBlock' = lastBlock
            /\ UNCHANGED begin
       ELSE /\ pc' = [pc EXCEPT ![i] = "gas"]
            /\ lastBlock' = out.val /\ skipped' = skipped
            /\ begin' = [begin EXCEPT ![i] = IF @ = NoTick THEN @ ELSE stateView]
  /\ UNCHANGED <<running, balVars, priceVars, tradeVars, riskVars, gasPrice,
                 config, envVars, boot, order, emitted, risk, failed, view, botState, sideVars>>

\* try { state.gasPrice = Number(await publicClient.getGasPrice()) } catch {}
GetGasPrice(i) ==
  /\ pc[i] = "gas"
  /\ pc' = [pc EXCEPT ![i] = "price1"]
  /\ \E out \in Outcomes(GasPrices) :
       /\ gasPrice' = IF out.ok THEN out.val ELSE gasPrice
       /\ Observe(i, Lost("fee", out))
  /\ UNCHANGED <<running, balVars, priceVars, lastBlock, tradeVars, riskVars,
                 config, envVars, boot, order, emitted, risk, skipped, botState, sideVars>>

FetchPricesEth(i) ==
  /\ pc[i] = "price1"
  /\ \E out \in Outcomes(sources.eth) :
       /\ fetchPricesEth(out)
       /\ pc' = [pc EXCEPT ![i] = IF out.ok THEN "price2" ELSE "balances"]
       /\ Observe(i, Lost("price", out))
  /\ UNCHANGED <<running, balVars, lastBlock, tradeVars, riskVars, gasPrice,
                 config, envVars, boot, order, emitted, risk, skipped, botState, sideVars>>

FetchPricesLink(i) ==
  /\ pc[i] = "price2"
  /\ pc' = [pc EXCEPT ![i] = "balances"]
  /\ \E out \in Outcomes(sources.link), sp \in sources.signals :
       /\ fetchPricesLink(out, sp)
       /\ Observe(i, Lost("price", out))
  /\ UNCHANGED <<running, balVars, lastBlock, tradeVars, riskVars, gasPrice,
                 config, envVars, boot, order, emitted, risk, skipped, botState, sideVars>>

\* updateBalances resolves; then, without suspension: peak update, the
\* warm-up test, executeStrategy up to the first await of swapExact / wrapETH
UpdateBalancesWith(i, out) ==
  /\ pc[i] = "balances"
  /\ updateBalances(out)
  /\ LET b     == IF out.ok THEN out.val ELSE curBal
         peak1 == updatePeak(getPortfolioUSD(b, ethPrice, linkPrice), portfolioPeakUSD)
         g     == IF running /\ Len(ethPriceHistory) >= config.smaSlow
                  THEN executeStrategyGate(b, peak1, currentDrawdown, drawdownHalted)
                  ELSE NoCall(peak1, currentDrawdown, drawdownHalted)
     IN /\ risk' = IF g.called
                   THEN [called |-> TRUE, issues |-> g.issues, ok |-> g.go,
                         block |-> lastBlock, tradeBlock |-> lastTradeBlock,
                         cooldownBlocks |-> config.cooldownBlocks]
                   ELSE risk
        /\ portfolioPeakUSD' = g.peak
        /\ currentDrawdown' = g.drawdown
        /\ drawdownHalted' = g.halted
        /\ RunCascade(i, IF g.go THEN 1 ELSE 0, b)
  /\ Observe(i, Lost("balance", out))
  /\ UNCHANGED <<running, priceVars, lastBlock, tradeVars, gasPrice, config,
                 envVars, boot, skipped, botState, sideVars>>

UpdateBalances(i) == \E out \in BalanceReads : UpdateBalancesWith(i, out)

\* ensureApproval (swaps only): true, or false when a read or the approve tx fails
EnsureApproval(i) ==
  /\ pc[i] = "approve"
  /\ \E ok \in BOOLEAN :
       IF ok THEN /\ pc' = [pc EXCEPT ![i] = "submit"]
                  /\ UNCHANGED <<order, emitted>>
             ELSE Return(i)
  /\ Observe(i, {})
  /\ UNCHANGED <<running, balVars, priceVars, lastBlock, tradeVars, riskVars,
                 gasPrice, config, envVars, boot, risk, skipped, botState, sideVars>>

\* walletClient.writeContract resolves with a hash or throws
Submit(i) ==
  /\ pc[i] = "submit"
  /\ \E ok \in BOOLEAN :
       IF ok THEN /\ pc' = [pc EXCEPT ![i] = "receipt"]
                  /\ UNCHANGED <<order, emitted>>
             ELSE Return(i)
  /\ Observe(i, {})
  /\ UNCHANGED <<running, balVars, priceVars, lastBlock, tradeVars, riskVars,
                 gasPrice, config, envVars, boot, risk, skipped, botState, sideVars>>

\* waitForTransactionReceipt resolves with the receipt of the mined
\* transaction (status success or reverted) or throws
Receipt(i) ==
  /\ pc[i] = "receipt"
  /\ \E out \in Outcomes({"success", "reverted"}) :
       IF out.ok THEN recordTrade(order[i], out.val) ELSE UNCHANGED tradeVars
  /\ Return(i)
  /\ Observe(i, {})
  /\ UNCHANGED <<running, balVars, priceVars, lastBlock, riskVars, gasPrice,
                 config, envVars, boot, risk, skipped, botState, sideVars>>

----------------------------------------------------------------------------
\* Dashboard endpoints (served once start() has called app.listen)

resetPeak_keep(portfolioUSD, peak) == peak

\* state.portfolioPeakUSD = getPortfolioUSD() of reset-drawdown
resetPeak(portfolioUSD, peak) == portfolioUSD

\* POST /api/control with every action but the three of the handler treated as stop
control_defaultStop(action) ==
  [ running |-> (action = "start"),
    drawdownHalted |-> IF action \in {"start", "reset-drawdown"} THEN FALSE ELSE drawdownHalted,
    portfolioPeakUSD |-> IF action = "reset-drawdown"
                         THEN resetPeak(getPortfolioUSD(curBal, ethPrice, linkPrice),
                                        portfolioPeakUSD)
                         ELSE portfolioPeakUSD ]

\* POST /api/control: the if / else-if chain (it has no final else), as the
\* values the handler leaves in state
control(action) ==
  [ running |-> IF action = "start" THEN TRUE
                ELSE IF action = "stop" THEN FALSE ELSE running,
    drawdownHalted |-> IF action \in {"start", "reset-drawdown"} THEN FALSE ELSE drawdownHalted,
    portfolioPeakUSD |-> IF action = "reset-drawdown"
                         THEN resetPeak(getPortfolioUSD(curBal, ethPrice, linkPrice),
                                        portfolioPeakUSD)
                         ELSE portfolioPeakUSD ]

\* POST /api/control, its response not observed
Control(action) ==
  /\ boot = "done"
  /\ running' = control(action).running
  /\ drawdownHalted' = control(action).drawdownHalted
  /\ portfolioPeakUSD' = control(action).portfolioPeakUSD
  /\ UNCHANGED <<balVars, priceVars, lastBlock, tradeVars, currentDrawdown, gasPrice,
                 config, envVars, boot, procVars, obsVars, botState, sideVars>>

\* POST /api/control with its response, res.json({ running: state.running })
PostControl(action) ==
  /\ boot = "done"
  /\ running' = control(action).running
  /\ drawdownHalted' = control(action).drawdownHalted
  /\ portfolioPeakUSD' = control(action).portfolioPeakUSD
  /\ reply' = [reply EXCEPT !.bot = [status |-> 200, action |-> action, running |-> running']]
  /\ UNCHANGED <<balVars, priceVars, lastBlock, tradeVars, currentDrawdown, gasPrice,
                 config, envVars, boot, procVars, obsVars, botState, reb>>

\* Object.assign(state.config, req.body)
ConfigUpdate(body) ==
  /\ boot = "done"
  /\ config' = [k \in DOMAIN config \cup DOMAIN body |->
                  IF k \in DOMAIN body THEN body[k] ELSE config[k]]
  /\ UNCHANGED <<running, balVars, priceVars, lastBlock, tradeVars, riskVars,
                 gasPrice, envVars, boot, procVars, obsVars, botState, sideVars>>

\* dashboard.js: Object spread of the stored config, the request body and enabled: true
mergeConfig(cfg, body) ==
  [k \in DOMAIN cfg \cup DOMAIN body \cup {"enabled"} |->
     IF k = "enabled" THEN TRUE ELSE IF k \in DOMAIN body THEN body[k] ELSE cfg[k]]

\* dashboard.js: POST /api/config
DashConfig(body) ==
  /\ botState' = [botState EXCEPT !.config = mergeConfig(@, body)]
  /\ UNCHANGED <<botVars, sideVars>>

\* dashboard.js: POST /api/control, its response not observed
DashControl(action) ==
  /\ botState' = [botState EXCEPT !.isRunning = IF action = "start" THEN TRUE
                                                ELSE IF action = "stop" THEN FALSE ELSE @]
  /\ UNCHANGED <<botVars, sideVars>>

\* dashboard.js: the status the three branches of POST /api/control respond with
dashStatus(action) == IF action \in {"start", "stop"} THEN 200 ELSE 400

\* dashboard.js: POST /api/control with its response
DashPostControl(action) ==
  /\ botState' = [botState EXCEPT !.isRunning = IF action = "start" THEN TRUE
                                                ELSE IF action = "stop" THEN FALSE ELSE @]
  /\ reply' = [reply EXCEPT !.dashboard = [status |-> dashStatus(action), action |-> action]]
  /\ UNCHANGED <<botVars, reb>>

\* dashboard.js: updateStats, from the last of its reads to its end; a
\* rejected getBalance leaves the balances alone
DashUpdateStats ==
  /\ \E out \in Outcomes(DashBalances) :
       botState' = IF ~out.ok THEN botState
                   ELSE [botState EXCEPT !.ethBalance = out.val.eth,
                                         !.wethBalance = out.val.weth,
                                         !.linkBalance = out.val.link]
  /\ UNCHANGED <<botVars, sideVars>>

\* GET /api/state: res.json({...state, ...}); `view` keeps the first response
GetState ==
  /\ boot = "done"
  /\ view = NoView
  /\ view' = stateView
  /\ UNCHANGED <<running, balVars, priceVars, lastBlock, tradeVars, riskVars, gasPrice,
                 config, envVars, boot, procVars, risk, skipped, failed, begin, botState, sideVars>>

----------------------------------------------------------------------------
\* Environment

NewBlock ==
  /\ chain < MaxBlock
  /\ chain' = chain + 1
  /\ UNCHANGED <<running, balVars, priceVars, lastBlock, tradeVars, riskVars,
                 gasPrice, config, now, sources, boot, procVars, obsVars, botState, sideVars>>

Next ==
  \/ StartBalances
  \/ StartPricesEth
  \/ StartPricesLink
  \/ TimerFire
  \/ \E i \in Inv : GetBlockNumber(i)
  \/ \E i \in Inv : GetGasPrice(i)
  \/ \E i \in Inv : FetchPricesEth(i)
  \/ \E i \in Inv : FetchPricesLink(i)
  \/ \E i \in Inv : UpdateBalances(i)
  \/ \E i \in Inv : EnsureApproval(i)
  \/ \E i \in Inv : Submit(i)
  \/ \E i \in Inv : Receipt(i)
  \/ \E a \in ControlActions : Control(a)
  \/ \E body \in ConfigBodies : ConfigUpdate(body)
  \/ NewBlock

Spec == Init /\ [][Next]_vars

----------------------------------------------------------------------------
\* The statistics dashboard (dashboard.js), a process of its own

NextDash ==
  \/ \E body \in DashBodies : DashConfig(body)
  \/ \E a \in DashActions : DashControl(a)
  \/ DashUpdateStats

SpecDash == Init /\ [][NextDash]_vars

----------------------------------------------------------------------------
\* One watched tick: the timer has fired on a process that has run for a
\* while, the dashboard may be polled at any moment of the tick

\* config as it stands, or after POST /api/config has shortened the warm-up
TickConfigs == {CONFIG, [CONFIG EXCEPT !.smaSlow = 2, !.cooldownBlocks = 2]}

\* n earlier ticks have each appended one sample
Samples(n, p) == [k \in 1..n |-> [time |-> 0, price |-> p]]

InitTick ==
  /\ running \in BOOLEAN
  /\ \E b \in BalanceProfiles :
       /\ ethBalance = b.eth /\ wethBalance = b.weth
       /\ linkBalance = b.link /\ usdcBalance = b.usdc
       /\ portfolioPeakUSD \in {getPortfolioUSD(q, 2000, 10) : q \in BalanceProfiles}
       /\ portfolioPeakUSD >= getPortfolioUSD(b, 2000, 10)
  /\ ethPrice = 2000 /\ linkPrice = 10
  /\ ethPriceHistory = Samples(2, 2000) /\ linkPriceHistory = Samples(2, 10)
  /\ indicators \in SignalProfiles
  /\ config \in TickConfigs
  /\ signals = [eth  |-> compositeSignal(indicators, "eth", ethPriceHistory),
                link |-> compositeSignal(indicators, "link", linkPriceHistory)]
  /\ lastBlock = 11 /\ lastTradeBlock = 0 /\ tradesExecuted = 0 /\ tradeHistory = <<>>
  /\ currentDrawdown = 0 /\ drawdownHalted = FALSE
  /\ gasPrice = 20
  /\ chain = 12
  /\ now = 0
  /\ sources = FaultySources
  /\ boot = "done"
  /\ pc = [i \in Inv |-> IF i = 1 THEN "block" ELSE "idle"]
  /\ order = [i \in Inv |-> NoOrder]
  /\ emitted = [i \in Inv |-> 0]
  /\ risk = NoRisk
  /\ skipped = 0
  /\ failed = [i \in Inv |-> {}]
  /\ begin = [i \in Inv |-> IF i = 1 THEN Watched ELSE NoTick]
  /\ view = NoView
  /\ botState = BotState
  /\ reply = NoReply
  /\ reb = RebState

NextTick ==
  \/ \E i \in Inv : GetBlockNumber(i)
  \/ \E i \in Inv : GetGasPrice(i)
  \/ \E i \in Inv : FetchPricesEth(i)
  \/ \E i \in Inv : FetchPricesLink(i)
  \/ \E i \in Inv : UpdateBalances(i)
  \/ \E i \in Inv : EnsureApproval(i)
  \/ \E i \in Inv : Submit(i)
  \/ \E i \in Inv : Receipt(i)
  \/ GetState

SpecTick == InitTick /\ [][NextTick]_vars

----------------------------------------------------------------------------
\* The synchronous part of a tick (peak update, risk check, decision) applied
\* to the states a warmed-up, running process can have reached when its
\* balance read returns: block 1000, wall clock 6 (half hours)

\* config as it stands, or after POST /api/config has lowered the rate limit
RiskConfigs == {CONFIG, [CONFIG EXCEPT !.maxTradesPerHour = 2]}

\* what the Fee Oracle delivered in this tick
RiskGasPrices == {20, 60}

\* earlier peaks of the portfolio value
RiskPeaks == {402000, 914000, 1200000}

TradeAt(t, blk) ==
  [time |-> t, type |-> "SWAP", from |-> "WETH", to |-> "USDC", amountIn |-> 360,
   tx |-> "success", block |-> blk]

\* trade histories: (wall clock, block) of each recorded trade
TradeLogs ==
  { <<>>,
    <<TradeAt(6, 995)>>,
    <<TradeAt(5, 850), TradeAt(6, 995)>>,
    <<TradeAt(4, 700), TradeAt(5, 850)>>,
    <<TradeAt(5, 800), TradeAt(5, 900)>>,
    <<TradeAt(3, 500), TradeAt(4, 700)>>,
    <<TradeAt(3, 500), TradeAt(5, 800), TradeAt(5, 900)>> }

InitRisk ==
  /\ running = TRUE
  /\ \E b \in BalanceProfiles :
       /\ ethBalance = b.eth /\ wethBalance = b.weth
       /\ linkBalance = b.link /\ usdcBalance = b.usdc
       /\ portfolioPeakUSD \in RiskPeaks
       /\ portfolioPeakUSD >= getPortfolioUSD(b, 2000, 10)
  /\ ethPrice = 2000 /\ linkPrice = 10
  /\ config \in RiskConfigs
  /\ ethPriceHistory = Samples(config.smaSlow, 2000)
  /\ linkPriceHistory = Samples(config.smaSlow, 10)
  /\ indicators \in SignalProfiles
  /\ signals = indicators
  /\ lastBlock = 1000
  /\ tradeHistory \in TradeLogs
  /\ tradesExecuted = Len(tradeHistory)
  /\ lastTradeBlock = IF tradeHistory = <<>> THEN 0 ELSE tradeHistory[Len(tradeHistory)].block
  /\ currentDrawdown = 0 /\ drawdownHalted = FALSE
  /\ gasPrice \in RiskGasPrices
  /\ chain = 1000
  /\ now = 6
  /\ sources = Sources
  /\ boot = "done"
  /\ pc = [i \in Inv |-> IF i = 1 THEN "balances" ELSE "idle"]
  /\ order = [i \in Inv |-> NoOrder]
  /\ emitted = [i \in Inv |-> 0]
  /\ risk = NoRisk
  /\ skipped = 0
  /\ failed = [i \in Inv |-> {}]
  /\ begin = [i \in Inv |-> NoTick]
  /\ view = NoView
  /\ botState = BotState
  /\ reply = NoReply
  /\ reb = RebState

NextRisk == \E i \in Inv : UpdateBalances(i)

SpecRisk == InitRisk /\ [][NextRisk]_vars

\* Control requests to both servers, between the risk checks of a running bot
NextControl ==
  \/ \E i \in Inv : UpdateBalances(i)
  \/ \E a \in ControlActions : PostControl(a)
  \/ \E a \in DashActions : DashPostControl(a)

SpecControl == InitRisk /\ [][NextControl]_vars

----------------------------------------------------------------------------
\* Rebalancing bot (part_001): the polling loop of runBot

\* highest block height the ledger reaches while the rebalancing bot polls
RebMaxBlock == 1004
\* height of the ledger when the polling is taken up
RebStartHeights == {1000}

\* getPrice: linkAmount / wethAmount in 1e-2, 1.0 when there is no WETH
rebGetPrice(r) ==
  IF r.wethBalance = 0 THEN 100 ELSE (r.linkBalance * 100) \div r.wethBalance

\* state.priceHistory.push(price), and shift() beyond 2 * volatilityWindow
rebPush(h, price) ==
  LET a == Append(h, price)
  IN  IF Len(a) > rebCONFIG.volatilityWindow * 2 THEN Tail(a) ELSE a

\* calculateVolatility() > CONFIG.volatilityThreshold: sqrt(variance) / mean
\* over the last volatilityWindow prices, compared without the root and the
\* quotients (n^2 * variance = n * sum of squares - (sum)^2)
rebHighVolatility(h) ==
  IF Len(h) < 2 THEN FALSE
  ELSE LET n == Min(Len(h), rebCONFIG.volatilityWindow)
           prices == SubSeq(h, Len(h) - n + 1, Len(h))
           S == SumOf(prices)
           Q == SumOf([k \in 1..n |-> prices[k] * prices[k]])
           t == rebCONFIG.volatilityThreshold
       IN  S > 0 /\ n * Q - S * S > (t * t * S * S) \div 10000

\* updateBalances: state after the reads delivered `out`; a rejected
\* getBalance is caught and leaves the state alone
rebUpdateBalances(r, out) ==
  IF ~out.ok THEN r
  ELSE [r EXCEPT !.ethBalance = out.val.eth, !.wethBalance = out.val.weth,
                 !.linkBalance = out.val.link]

\* updateBalances: the balances it returns
rebBalances(out) == IF out.ok THEN out.val ELSE [eth |-> 0, weth |-> 0, link |-> 0]

\* shouldRebalance, after its updateBalances: high volatility, or a LINK share
\* above 0.95 or below 0.05 of weth + link
shouldRebalance(h, bal) ==
  \/ rebHighVolatility(h)
  \/ /\ bal.weth + bal.link > 0
     /\ \/ 20 * bal.link > 19 * (bal.weth + bal.link)
        \/ 20 * bal.link < bal.weth + bal.link

\* setTimeout(checkAndTrade, delay) issued twice at the end of an invocation
armNext_twice(r, i, delay) ==
  [r EXCEPT !.pc[i] = "idle", !.timers = Append(Append(@, delay), delay)]

\* setTimeout(checkAndTrade, delay) as the last statement of invocation i
armNext(r, i, delay) ==
  [r EXCEPT !.pc[i] = "idle", !.timers = Append(@, delay)]

\* line 277: the try block ran to its end
returned(r, i) == [armNext(r, i, NormalDelay) EXCEPT !.outcome = "returned"]

\* lines 278-281: the catch block
threw(r, i) == [armNext(r, i, ErrorDelay) EXCEPT !.outcome = "threw"]

\* a pending timer expires and calls checkAndTrade, which awaits getBlockNumber
RebTimerFire(i, k) ==
  /\ reb.pc[i] = "idle"
  /\ k \in DOMAIN reb.timers
  /\ reb' = [reb EXCEPT !.pc[i] = "block",
                        !.timers = SubSeq(@, 1, k - 1) \o SubSeq(@, k + 1, Len(@))]
  /\ UNCHANGED <<botVars, botState, reply>>

\* checkAndTrade from the answer of getBlockNumber to its next await or its end
RebGetBlockNumber(i) ==
  /\ reb.pc[i] = "block"
  /\ \E out \in Outcomes({chain}) :
       reb' = IF ~out.ok THEN threw(reb, i)
              ELSE IF out.val > reb.lastBlock
              THEN LET r == [reb EXCEPT !.lastBlock = out.val,
                                        !.blockCount = @ + 1,
                                        !.priceHistory = rebPush(@, rebGetPrice(reb))]
                   IN  IF r.blockCount % 5 = 0 THEN [r EXCEPT !.pc[i] = "monitor"]
                       ELSE returned(r, i)
              ELSE returned(reb, i)
  /\ UNCHANGED <<botVars, botState, reply>>

\* `if (await shouldRebalance())`, from the answer of its updateBalances
RebShouldRebalance(i) ==
  /\ reb.pc[i] = "monitor"
  /\ \E out \in Outcomes(RebBalances) :
       LET r == rebUpdateBalances(reb, out)
       IN  reb' = IF shouldRebalance(r.priceHistory, rebBalances(out))
                  THEN [r EXCEPT !.pc[i] = "rebalance"]
                  ELSE returned(r, i)
  /\ UNCHANGED <<botVars, botState, reply>>

\* lines 262-272, from the answer of updateBalances: which of autoWrapETH and
\* autoSwapWETH is called (both tests read the same `balances`)
RebRebalance(i) ==
  /\ reb.pc[i] = "rebalance"
  /\ \E out \in Outcomes(RebBalances) :
       LET r == rebUpdateBalances(reb, out)
           bal == rebBalances(out)
       IN  reb' = IF bal.weth < 1 /\ bal.eth > rebCONFIG.gasReserve + rebCONFIG.minTradeAmount
                  THEN [r EXCEPT !.pc[i] = "wrap"]
                  ELSE IF bal.weth > 1 THEN [r EXCEPT !.pc[i] = "swap"]
                  ELSE returned(r, i)
  /\ UNCHANGED <<botVars, botState, reply>>

\* autoWrapETH (its own reads and its transaction, sent says whether the
\* deposit was confirmed), and the rest of the invocation
RebAutoWrap(i) ==
  /\ reb.pc[i] = "wrap"
  /\ \E out \in Outcomes(RebBalances), sent \in BOOLEAN :
       LET r == rebUpdateBalances(reb, out)
           bal == rebBalances(out)
           wraps == bal.eth - rebCONFIG.gasReserve > rebCONFIG.minTradeAmount /\ bal.weth < 10
       IN  reb' = returned(IF wraps /\ sent THEN [r EXCEPT !.tradesExecuted = @ + 1] ELSE r, i)
  /\ UNCHANGED <<botVars, botState, reply>>

\* autoSwapWETH (its own reads and its two transactions, sent says whether
\* both were confirmed), and the rest of the invocation
RebAutoSwap(i) ==
  /\ reb.pc[i] = "swap"
  /\ \E out \in Outcomes(RebBalances), sent \in BOOLEAN :
       LET r == rebUpdateBalances(reb, out)
           swaps == rebBalances(out).weth >= 1
       IN  reb' = returned(IF swaps /\ sent THEN [r EXCEPT !.tradesExecuted = @ + 1] ELSE r, i)
  /\ UNCHANGED <<botVars, botState, reply>>

\* the ledger grows while the rebalancing bot polls
RebNewBlock ==
  /\ chain < RebMaxBlock
  /\ chain' = chain + 1
  /\ UNCHANGED <<running, balVars, priceVars, lastBlock, tradeVars, riskVars,
                 gasPrice, config, now, sources, boot, procVars, obsVars, botState, sideVars>>

\* the rebalancing bot with n prices held after blockCount processed blocks,
\* the latest at `height`, holding balances b, its latest invocation having
\* armed the next one
RebAfter(n, blockCount, b, height) ==
  [ RebState EXCEPT !.ethBalance = b.eth, !.wethBalance = b.weth, !.linkBalance = b.link,
                    !.priceHistory = [k \in 1..n |-> 100],
                    !.lastBlock = height, !.blockCount = blockCount,
                    !.timers = <<NormalDelay>>,
                    !.pc = [i \in Inv |-> "idle"], !.outcome = "returned" ]

\* runBot has just called checkAndTrade(), or the loop has been polling for a
\* while and priceHistory is at or next to its capacity
InitReb ==
  /\ running = FALSE
  /\ ethBalance = 0 /\ wethBalance = 0 /\ linkBalance = 0 /\ usdcBalance = 0
  /\ ethPrice = 0 /\ linkPrice = 0
  /\ ethPriceHistory = <<>> /\ linkPriceHistory = <<>>
  /\ indicators = [eth |-> 0, link |-> 0]
  /\ signals = [eth |-> 0, link |-> 0]
  /\ lastBlock = 0 /\ lastTradeBlock = 0 /\ tradesExecuted = 0 /\ tradeHistory = <<>>
  /\ portfolioPeakUSD = 0 /\ currentDrawdown = 0 /\ drawdownHalted = FALSE
  /\ gasPrice = 0
  /\ config = CONFIG
  /\ chain \in RebStartHeights
  /\ now = 0
  /\ sources = Sources
  /\ boot = "balances"
  /\ pc = [i \in Inv |-> "idle"]
  /\ order = [i \in Inv |-> NoOrder]
  /\ emitted = [i \in Inv |-> 0]
  /\ risk = NoRisk
  /\ skipped = 0
  /\ failed = [i \in Inv |-> {}]
  /\ begin = [i \in Inv |-> NoTick]
  /\ view = NoView
  /\ botState = BotState
  /\ reply = NoReply
  /\ \/ reb = RebState
     \/ \E n \in (2 * rebCONFIG.volatilityWindow - 2)..(2 * rebCONFIG.volatilityWindow),
           b \in RebBalances :
          reb \in {RebAfter(n, n, b, chain), RebAfter(n, n + 4, b, chain)}

NextReb ==
  \/ \E i \in Inv, k \in 1..MaxInv : RebTimerFire(i, k)
  \/ \E i \in Inv : RebGetBlockNumber(i)
  \/ \E i \in Inv : RebShouldRebalance(i)
  \/ \E i \in Inv : RebRebalance(i)
  \/ \E i \in Inv : RebAutoWrap(i)
  \/ \E i \in Inv : RebAutoSwap(i)
  \/ RebNewBlock

\* timers expire and awaited calls settle (requests time out); the ledger owes
\* the bot no new block
RebFairness ==
  /\ WF_vars(\E i \in Inv, k \in 1..MaxInv : RebTimerFire(i, k))
  /\ WF_vars(\E i \in Inv : RebGetBlockNumber(i))
  /\ WF_vars(\E i \in Inv : RebShouldRebalance(i))
  /\ WF_vars(\E i \in Inv : RebRebalance(i))
  /\ WF_vars(\E i \in Inv : RebAutoWrap(i))
  /\ WF_vars(\E i \in Inv : RebAutoSwap(i))

SpecReb == InitReb /\ [][NextReb]_vars /\ RebFairness

----------------------------------------------------------------------------
\* The price engine on its own: fetchPrices called again and again on a
\* fresh process, the indicators and signals as computed

\* config after POST /api/config has shortened the indicator periods
IndConfigs ==
  { [CONFIG EXCEPT !.smaFast = 2, !.smaSlow = 4, !.rsiPeriod = 2, !.bbPeriod = 3],
    [CONFIG EXCEPT !.smaFast = 2, !.smaSlow = 4, !.rsiPeriod = 2, !.bbPeriod = 6] }

\* Price Source: WETH/USDC pool prices
IndPrices == {149, 157, 165}

IndSources ==
  [balances |-> BalanceProfiles, tokenReads |-> TokenReads, eth |-> IndPrices,
   link |-> LinkPrices, signals |-> {}]

InitInd ==
  /\ running = TRUE
  /\ ethBalance = 400 /\ wethBalance = 12 /\ linkBalance = 5000 /\ usdcBalance = 40000
  /\ ethPrice = 0 /\ linkPrice = 0
  /\ ethPriceHistory = <<>> /\ linkPriceHistory = <<>>
  /\ indicators = [eth |-> FreshIndicators, link |-> FreshIndicators]
  /\ signals = [eth |-> 0, link |-> 0, ethDetails |-> <<>>, linkDetails |-> <<>>]
  /\ lastBlock = 0 /\ lastTradeBlock = 0 /\ tradesExecuted = 0 /\ tradeHistory = <<>>
  /\ portfolioPeakUSD = 0 /\ currentDrawdown = 0 /\ drawdownHalted = FALSE
  /\ gasPrice = 0
  /\ config \in IndConfigs
  /\ chain \in StartHeights
  /\ now = 0
  /\ sources = IndSources
  /\ boot = "done"
  /\ pc = [i \in Inv |-> "idle"]
  /\ order = [i \in Inv |-> NoOrder]
  /\ emitted = [i \in Inv |-> 0]
  /\ risk = NoRisk
  /\ skipped = 0
  /\ failed = [i \in Inv |-> {}]
  /\ begin = [i \in Inv |-> NoTick]
  /\ view = NoView
  /\ botState = BotState
  /\ reply = NoReply
  /\ reb = RebState

\* fetchPrices from the resolution of its second read to its end
fetchPrices(eth, link) ==
  LET eh == IF eth > 0 THEN pushPrice(ethPriceHistory, now, eth) ELSE ethPriceHistory
      lh == IF link > 0 THEN pushPrice(linkPriceHistory, now, link) ELSE linkPriceHistory
      ie == IF eth > 0 THEN updateIndicators(indicators.eth, eh) ELSE indicators.eth
      il == IF link > 0 THEN updateIndicators(indicators.link, lh) ELSE indicators.link
      ethSig  == generateSignal(ie, eh)
      linkSig == generateSignal(il, lh)
  IN /\ ethPrice' = eth /\ linkPrice' = link
     /\ ethPriceHistory' = eh /\ linkPriceHistory' = lh
     /\ indicators' = [eth |-> ie, link |-> il]
     /\ signals' = [eth |-> ethSig.composite, link |-> linkSig.composite,
                    ethDetails |-> ethSig.details, linkDetails |-> linkSig.details]

\* a call of fetchPrices: either read can throw, which ends the call
FetchPrices ==
  /\ boot = "done"
  /\ Len(ethPriceHistory) < MaxSamples
  /\ \E o1 \in Outcomes(sources.eth), o2 \in Outcomes(sources.link) :
       IF ~o1.ok THEN UNCHANGED priceVars
       ELSE IF ~o2.ok
       THEN /\ ethPrice' = o1.val
            /\ UNCHANGED <<linkPrice, ethPriceHistory, linkPriceHistory, indicators, signals>>
       ELSE fetchPrices(o1.val, o2.val)
  /\ UNCHANGED <<running, balVars, lastBlock, tradeVars, riskVars, gasPrice,
                 config, envVars, boot, procVars, obsVars, botState, sideVars>>

\* Date.now() advances
Clock ==
  /\ now < MaxClock
  /\ now' = now + 1
  /\ UNCHANGED <<running, balVars, priceVars, lastBlock, tradeVars, riskVars, gasPrice,
                 config, chain, sources, boot, procVars, obsVars, botState, sideVars>>

NextInd ==
  \/ FetchPrices
  \/ Clock

SpecInd == InitInd /\ [][NextInd]_vars

\* POST /api/config bodies that lengthen the RSI period
AccBodies == { [rsiPeriod |-> 4] }

\* the price fetches of a fresh process, with POST /api/config in between
NextAcc ==
  \/ FetchPrices
  \/ \E body \in AccBodies : ConfigUpdate(body)

SpecAcc == InitInd /\ [][NextAcc]_vars

----------------------------------------------------------------------------
\* One tick of a warmed-up, running process from the price fetch on, over
\* holdings and signals under which the cascade buys, wraps and sells

\* Balance Source: holdings in LINK and USDC, in USDC mostly, in ETH only,
\* in LINK beyond the position cap (without and with ETH to wrap), in WETH only
TradeBalances ==
  { [eth |-> 200, weth |-> 0,    link |-> 120000, usdc |-> 800000],
    [eth |-> 200, weth |-> 20,   link |-> 0,      usdc |-> 8000000],
    [eth |-> 400, weth |-> 0,    link |-> 0,      usdc |-> 0],
    [eth |-> 200, weth |-> 0,    link |-> 300000, usdc |-> 800000],
    [eth |-> 500, weth |-> 0,    link |-> 300000, usdc |-> 800000],
    [eth |-> 200, weth |-> 5000, link |-> 0,      usdc |-> 0] }

\* composites of the two assets: buy and sell signals of either asset, of
\* both, and one beyond the sizing cap
TradeSignals ==
  { [eth |-> 0, link |-> 40], [eth |-> 40, link |-> 0], [eth |-> -40, link |-> 0],
    [eth |-> 0, link |-> -40], [eth |-> -30, link |-> -30],
    [eth |-> 40, link |-> 40], [eth |-> -80, link |-> 0] }

\* the WETH/USDC pool can decode to a price that is not positive
TradeSources ==
  [balances |-> TradeBalances, tokenReads |-> TokenReads, eth |-> {2000, 0},
   link |-> LinkPrices, signals |-> TradeSignals]

InitTrade ==
  /\ running = TRUE
  /\ \E b \in TradeBalances :
       /\ ethBalance = b.eth /\ wethBalance = b.weth
       /\ linkBalance = b.link /\ usdcBalance = b.usdc
       /\ portfolioPeakUSD = getPortfolioUSD(b, 2000, 10)
  /\ ethPrice = 2000 /\ linkPrice = 10
  /\ config = CONFIG
  /\ ethPriceHistory = Samples(config.smaSlow, 2000)
  /\ linkPriceHistory = Samples(config.smaSlow, 10)
  /\ indicators \in TradeSignals
  /\ signals = indicators
  /\ lastBlock = 1000 /\ lastTradeBlock = 0 /\ tradesExecuted = 0 /\ tradeHistory = <<>>
  /\ currentDrawdown = 0 /\ drawdownHalted = FALSE
  /\ gasPrice = 20
  /\ chain = 1000
  /\ now = 6
  /\ sources = TradeSources
  /\ boot = "done"
  /\ pc = [i \in Inv |-> IF i = 1 THEN "price1" ELSE "idle"]
  /\ order = [i \in Inv |-> NoOrder]
  /\ emitted = [i \in Inv |-> 0]
  /\ risk = NoRisk
  /\ skipped = 0
  /\ failed = [i \in Inv |-> {}]
  /\ begin = [i \in Inv |-> NoTick]
  /\ view = NoView
  /\ botState = BotState
  /\ reply = NoReply
  /\ reb = RebState

NextTrade ==
  \/ \E i \in Inv : FetchPricesEth(i)
  \/ \E i \in Inv : FetchPricesLink(i)
  \/ \E i \in Inv : UpdateBalances(i)
  \/ \E i \in Inv : EnsureApproval(i)
  \/ \E i \in Inv : Submit(i)
  \/ \E i \in Inv : Receipt(i)

SpecTrade == InitTrade /\ [][NextTrade]_vars

----------------------------------------------------------------------------
\* A process that has run for long: the histories stand at their capacities
\* or just below, and two more ledger heights arrive

\* the samples of n earlier ticks, oldest first, each with a price of its own
OldSamples(n, base) == [k \in 1..n |-> [time |-> 0, price |-> base + k]]

\* the records of m trades of more than an hour ago, oldest first
OldTrades(m) ==
  [k \in 1..m |-> [time |-> 0, type |-> "SWAP", from |-> "USDC", to |-> "LINK",
                   amountIn |-> k, tx |-> "success", block |-> 0]]

\* POST /api/config has shortened the cooldown to one height
HistConfig == [CONFIG EXCEPT !.cooldownBlocks = 1]

\* holdings in USDC mostly, with WETH to sell
HistBalances == {[eth |-> 200, weth |-> 20, link |-> 0, usdc |-> 8000000]}

HistSignals == {[eth |-> 0, link |-> 40], [eth |-> -40, link |-> 0]}

HistSources ==
  [balances |-> HistBalances, tokenReads |-> TokenReads, eth |-> {2000, 0},
   link |-> LinkPrices, signals |-> HistSignals]

InitHist ==
  /\ running = TRUE
  /\ \E b \in HistBalances :
       /\ ethBalance = b.eth /\ wethBalance = b.weth
       /\ linkBalance = b.link /\ usdcBalance = b.usdc
       /\ portfolioPeakUSD = getPortfolioUSD(b, 2000, 10)
  /\ ethPrice = 2000 /\ linkPrice = 10
  /\ config = HistConfig
  /\ \E n \in (PriceHistoryCap - 1)..PriceHistoryCap :
       /\ ethPriceHistory = OldSamples(n, 1000)
       /\ linkPriceHistory = OldSamples(n, 0)
  /\ indicators \in HistSignals
  /\ signals = indicators
  /\ \E m \in (TradeHistoryCap - 1)..TradeHistoryCap :
       /\ tradeHistory = OldTrades(m)
       /\ tradesExecuted = m
  /\ lastBlock = 10 /\ lastTradeBlock = 0
  /\ currentDrawdown = 0 /\ drawdownHalted = FALSE
  /\ gasPrice = 20
  /\ chain \in StartHeights
  /\ now = 6
  /\ sources = HistSources
  /\ boot = "done"
  /\ pc = [i \in Inv |-> IF i = 1 THEN "block" ELSE "idle"]
  /\ order = [i \in Inv |-> NoOrder]
  /\ emitted = [i \in Inv |-> 0]
  /\ risk = NoRisk
  /\ skipped = 0
  /\ failed = [i \in Inv |-> {}]
  /\ begin = [i \in Inv |-> NoTick]
  /\ view = NoView
  /\ botState = BotState
  /\ reply = NoReply
  /\ reb = RebState

NextHist ==
  \/ TimerFire
  \/ \E i \in Inv : GetBlockNumber(i)
  \/ \E i \in Inv : GetGasPrice(i)
  \/ \E i \in Inv : FetchPricesEth(i)
  \/ \E i \in Inv : FetchPricesLink(i)
  \/ \E i \in Inv : UpdateBalances(i)
  \/ \E i \in Inv : EnsureApproval(i)
  \/ \E i \in Inv : Submit(i)
  \/ \E i \in Inv : Receipt(i)
  \/ NewBlock

SpecHist == InitHist /\ [][NextHist]_vars

----------------------------------------------------------------------------
TypeOK ==
  /\ running \in BOOLEAN /\ drawdownHalted \in BOOLEAN
  /\ reply.bot.status \in {0, 200} /\ reply.dashboard.status \in {0, 200, 400}
  /\ reb.pc \in [Inv -> {"idle", "block", "monitor", "rebalance", "wrap", "swap"}]
  /\ pc \in [Inv -> {"idle", "block", "gas", "price1", "price2", "balances",
                     "approve", "submit", "receipt"}]
  /\ lastTradeBlock <= lastBlock

----------------------------------------------------------------------------
\* Properties

Range(f) == {f[k] : k \in DOMAIN f}

\* positions of mainLoop after the height check
InTick == {"gas", "price1", "price2", "balances", "approve", "submit", "receipt"}

\* positions at which an order is with the Order Executor
OrderPcs == {"approve", "submit", "receipt"}

\* everything a tick can change, apart from the positions and the observations
tickState == <<running, balVars, priceVars, lastBlock, tradeVars, riskVars, gasPrice,
               config, order, emitted>>

\* the minimum trade size that applies to the source asset of instruction o
MinTradeSize(o) == IF o.kind = "WRAP" THEN config.minTradeETH * 100 ELSE Floor[o.from]

\* the drawdown of balances b against peak is within maxDrawdownPct
WithinDrawdown(b, peak) ==
  (peak - getPortfolioUSD(b, ethPrice, linkPrice)) * 100 <= config.maxDrawdownPct * peak

\* C1: no state is reachable in which two mainLoop invocations are both past
\* the height check (two ticks in progress).
C1_NoOverlap == Cardinality({i \in Inv : pc[i] \in InTick}) <= 1

\* C2: lastBlock never decreases, an invocation that goes on past the height
\* check has strictly raised it, and an invocation that returns at the height
\* check (it observed a height <= lastBlock, or the read failed) changes nothing.
C2_Dedup ==
  [][ /\ lastBlock' >= lastBlock
      /\ skipped' <= lastBlock'
      /\ \A i \in Inv :
           /\ (pc[i] = "block" /\ pc'[i] = "gas") => lastBlock' > lastBlock
           /\ (pc[i] = "block" /\ pc'[i] = "idle") => UNCHANGED <<tickState, risk>> ]_vars

\* an invocation observed the height of the tick that is still in progress and returned
C2_Witness ==
  /\ lastBlock > 0 /\ skipped = lastBlock
  /\ \E i \in Inv : pc[i] \in InTick

\* C3: every TradeRecord refers to an order whose execution was confirmed as
\* a success.
C3_OnlyConfirmed == \A k \in DOMAIN tradeHistory : tradeHistory[k].tx = "success"

\* C4: with the latest trade recorded at height T, a checkRisk call at a height
\* in T+1 .. T+cooldownBlocks-1 reports COOLDOWN and a call at height
\* T+cooldownBlocks does not.
C4_Cooldown ==
  (risk.called /\ risk.tradeBlock > 0) =>
    /\ (risk.block \in (risk.tradeBlock + 1) .. (risk.tradeBlock + risk.cooldownBlocks - 1)
          => "COOLDOWN" \in Range(risk.issues))
    /\ (risk.block = risk.tradeBlock + risk.cooldownBlocks
          => "COOLDOWN" \notin Range(risk.issues))

\* checkRisk ran exactly cooldownBlocks after a recorded trade and reported no cooldown
C4_Witness ==
  /\ risk.called /\ risk.tradeBlock > 0 /\ risk.cooldownBlocks > 1
  /\ risk.block = risk.tradeBlock + risk.cooldownBlocks
  /\ "COOLDOWN" \notin Range(risk.issues)

\* C5: no step of a tick sets drawdownHalted back to false: the flag is
\* cleared by control requests only.
C5_StickyHalt ==
  [][ (drawdownHalted /\ ~drawdownHalted') => (Control("start") \/ Control("reset-drawdown")) ]_vars

\* halted by a risk check, and a later tick has refreshed the balances so
\* that the drawdown is within the limit again
C5_Witness ==
  /\ drawdownHalted /\ running
  /\ risk.called /\ "MAX DRAWDOWN" \in Range(risk.issues) /\ lastBlock > risk.block
  /\ portfolioPeakUSD > 0 /\ WithinDrawdown(curBal, portfolioPeakUSD)
  /\ \A i \in Inv : pc[i] = "idle"

\* C6: the only operation that changes the halt flag from true to false is
\* the reset-drawdown control action.
C6_OnlyReset ==
  [][ (drawdownHalted /\ ~drawdownHalted') => Control("reset-drawdown") ]_vars

\* C7: an order is handed to the Order Executor only in a step in which
\* running is true, drawdownHalted is false and checkRisk has just returned
\* an empty issue list for this tick.
C7_Gate ==
  [][ \A i \in Inv :
        (order[i] = NoOrder /\ order'[i] # NoOrder) =>
          /\ pc[i] = "balances"
          /\ running /\ ~drawdownHalted /\ ~drawdownHalted'
          /\ risk'.called /\ risk'.block = lastBlock /\ risk'.issues = <<>> ]_vars

\* an order is with the Order Executor
C7_Witness == \E i \in Inv : pc[i] \in OrderPcs /\ order[i] # NoOrder

\* C8: an executeStrategy call dispatches at most one instruction, and has
\* dispatched one exactly while its order is with the Order Executor.
C8_AtMostOne ==
  \A i \in Inv : emitted[i] <= 1 /\ (emitted[i] = 1 <=> pc[i] \in OrderPcs)

\* a dispatched order is awaiting its receipt
C8_Witness == \E i \in Inv : emitted[i] = 1 /\ pc[i] = "receipt"

\* C9: the amountIn of every emitted instruction is at least the minimum
\* trade size that applies to its source asset.
C9_MinSize ==
  \A i \in Inv : order[i] # NoOrder => order[i].amountIn >= MinTradeSize(order[i])

\* C10: portfolioPeakUSD never decreases, except by the reset-drawdown action.
C10_PeakMonotone ==
  [][ portfolioPeakUSD' >= portfolioPeakUSD \/ Control("reset-drawdown") ]_vars

\* after a tick the portfolio value lies below the peak, which was kept
C10_Witness ==
  /\ lastBlock > 0 /\ portfolioPeakUSD > 0
  /\ getPortfolioUSD(curBal, ethPrice, linkPrice) < portfolioPeakUSD
  /\ \A i \in Inv : pc[i] = "idle"

\* the guards of the risk manager, in the order of their reports
Guards == <<"MAX DRAWDOWN", "COOLDOWN", "RATE LIMIT", "HIGH GAS", "LOW GAS RESERVE">>

\* TradeRecords whose time lies within the trailing hour
WindowCount ==
  Cardinality({k \in DOMAIN tradeHistory : now - tradeHistory[k].time < OneHour})

\* guard n is violated by the current state
Violated(n) ==
  CASE n = "MAX DRAWDOWN"    -> portfolioPeakUSD > 0 /\ ~WithinDrawdown(curBal, portfolioPeakUSD)
    [] n = "COOLDOWN"        -> lastBlock - lastTradeBlock < config.cooldownBlocks
    [] n = "RATE LIMIT"      -> WindowCount >= config.maxTradesPerHour
    [] n = "HIGH GAS"        -> gasPrice > GasCeiling
    [] n = "LOW GAS RESERVE" -> ethBalance < config.gasReserveETH

\* C11: the issue list of a checkRisk call holds one entry for each violated
\* guard and no other, in the order drawdown, cooldown, rate limit, gas
\* ceiling, gas reserve, and ok is true exactly when no guard is violated.
C11_AllGuards ==
  risk.called =>
    /\ \A g \in DOMAIN Guards : (Guards[g] \in Range(risk.issues)) <=> Violated(Guards[g])
    /\ \A j, k \in DOMAIN risk.issues :
         j < k => \E g, h \in DOMAIN Guards :
                    g < h /\ risk.issues[j] = Guards[g] /\ risk.issues[k] = Guards[h]
    /\ risk.ok <=> \A g \in DOMAIN Guards : ~Violated(Guards[g])

\* a checkRisk call found all five guards violated at once
C11_Witness == risk.called /\ risk.issues = Guards

\* C12: a checkRisk call reports RATE LIMIT exactly when the TradeRecords
\* within the trailing hour number at least maxTradesPerHour, and no order is
\* dispatched by a tick that finds the limit reached.
C12_RateLimit ==
  risk.called =>
    /\ ("RATE LIMIT" \in Range(risk.issues)) <=> (WindowCount >= config.maxTradesPerHour)
    /\ (WindowCount >= config.maxTradesPerHour) =>
         \A i \in Inv : order[i] = NoOrder /\ pc[i] = "idle"

\* the limit is just reached, an older record lies outside the window, and
\* the rate limit is the only issue
C12_Witness ==
  /\ risk.called /\ risk.issues = <<"RATE LIMIT">>
  /\ WindowCount = config.maxTradesPerHour
  /\ Len(tradeHistory) > WindowCount

\* invocation i runs a watched tick that has passed the height check
InWatchedTick(i) == begin[i] \notin {NoTick, Watched}

\* PortfolioState, IndicatorState and the TradeRecord history of a state view
Holdings(v) ==
  [balances |-> v.balances, ethPrice |-> v.ethPrice, linkPrice |-> v.linkPrice,
   portfolioPeakUSD |-> v.portfolioPeakUSD, currentDrawdown |-> v.currentDrawdown,
   drawdownHalted |-> v.drawdownHalted, indicators |-> v.indicators,
   tradeHistory |-> v.tradeHistory]

\* C13: at the end of a tick in which the Balance Source failed, the
\* PortfolioState, the IndicatorState and the TradeRecord history equal
\* their values at the start of the tick (the end of the prior tick).
C13_BalanceFailure ==
  \A i \in Inv :
    (InWatchedTick(i) /\ pc[i] = "idle" /\ "balance" \in failed[i]) =>
      Holdings(stateView) = Holdings(begin[i])

\* C14: once a fee, price or balance fetch of a tick has failed, the tick is
\* over: no further step of it, no risk check and no order dispatch follows.
C14_Abort ==
  \A i \in Inv :
    (InWatchedTick(i) /\ failed[i] \cap {"fee", "price", "balance"} # {}) =>
      pc[i] = "idle" /\ ~risk.called /\ order[i] = NoOrder

\* C15: the halt flag goes from false to true only in a tick in which no
\* fee, price or balance fetch failed, no token balance read failed and no
\* price was decoded as 0.
C15_NoHaltOnFailure ==
  \A i \in Inv :
    (InWatchedTick(i) /\ ~begin[i].drawdownHalted /\ drawdownHalted) => failed[i] = {}

\* C16: a response of GET /api/state shows the state of a tick boundary:
\* once the tick is over, the response that was served equals the state the
\* tick started from or the state it ended with.
C16_Snapshot ==
  \A i \in Inv :
    (InWatchedTick(i) /\ pc[i] = "idle" /\ view # NoView) =>
      view = begin[i] \/ view = stateView

\* the config `new` is `old` with exactly the fields of the request replaced
PartialUpdate(old, new, body) ==
  /\ DOMAIN new = DOMAIN old \cup DOMAIN body
  /\ \A k \in DOMAIN new : new[k] = IF k \in DOMAIN body THEN body[k] ELSE old[k]

\* C17: a POST /api/config request (of the trading bot and of the statistics
\* dashboard) replaces exactly the config fields it names and changes no
\* other config field and nothing outside the config.
C17_PartialUpdate ==
  [][ /\ \A body \in ConfigBodies :
           ConfigUpdate(body) => PartialUpdate(config, config', body)
      /\ config' # config => UNCHANGED <<running, balVars, priceVars, lastBlock, tradeVars,
                                         riskVars, gasPrice, procVars>>
      /\ \A body \in DashBodies :
           DashConfig(body) =>
             /\ PartialUpdate(botState.config, botState'.config, body)
             /\ botState' = [botState EXCEPT !.config = botState'.config] ]_vars

\* C18: reset-drawdown leaves the halt flag clear and the peak equal to the
\* current portfolio value, so that a risk check on the state it leaves
\* reports no drawdown issue and does not halt.
C18_Reset ==
  [][ Control("reset-drawdown") =>
        /\ ~drawdownHalted'
        /\ portfolioPeakUSD' = getPortfolioUSD(curBal, ethPrice, linkPrice)'
        /\ LET r == checkRisk(curBal, portfolioPeakUSD, currentDrawdown, drawdownHalted)'
           IN "MAX DRAWDOWN" \notin Range(r.issues) /\ ~r.halted ]_vars

\* the latest risk check halted the process in the tick of the current block
\* and reset-drawdown has re-anchored the peak since
C18_Witness ==
  /\ risk.called /\ "MAX DRAWDOWN" \in Range(risk.issues) /\ risk.block = lastBlock
  /\ \A i \in Inv : pc[i] = "idle"
  /\ ~drawdownHalted /\ running
  /\ portfolioPeakUSD > 0
  /\ portfolioPeakUSD = getPortfolioUSD(curBal, ethPrice, linkPrice)

\* the portfolio value lies below the peak by more than maxDrawdownPct
Breach == portfolioPeakUSD > 0 /\ ~WithinDrawdown(curBal, portfolioPeakUSD)

\* invocation i takes the step in which its balance refresh returns
AfterRefresh(i) == pc[i] = "balances" /\ pc'[i] # "balances"

\* C19: in every tick processed while running is true in which the refreshed
\* portfolio value lies below the peak by more than maxDrawdownPct, the halt
\* flag is set by the end of the tick and no order is dispatched.
C19_HaltOnBreach ==
  [][ \A i \in Inv :
        (AfterRefresh(i) /\ running /\ Breach') =>
          drawdownHalted' /\ pc'[i] = "idle" /\ order'[i] = NoOrder ]_vars

\* C19 (amended): the same for every tick processed while running is true
\* and the warm-up is complete (at least smaSlow ETH price samples exist).
C19_HaltAfterWarmup ==
  [][ \A i \in Inv :
        (AfterRefresh(i) /\ running /\ Len(ethPriceHistory) >= config.smaSlow /\ Breach') =>
          drawdownHalted' /\ pc'[i] = "idle" /\ order'[i] = NoOrder ]_vars

\* the risk check of the tick of the current block found the breach and the
\* process is halted
C19_Witness ==
  /\ running /\ Len(ethPriceHistory) >= config.smaSlow /\ Breach
  /\ risk.called /\ risk.block = lastBlock /\ risk.issues[1] = "MAX DRAWDOWN"
  /\ drawdownHalted
  /\ \A i \in Inv : pc[i] = "idle"

\* C20: when no earlier rule fires and the signals of ETH and LINK are both
\* below -0.2, the instruction that is dispatched swaps 30% of the larger of
\* the WETH and LINK holdings (by value) into USDC.
C20_RiskOff ==
  [][ \A i \in Inv :
        ( /\ order[i] = NoOrder /\ order'[i] # NoOrder
          /\ order'[i].rule \notin 1..7
          /\ signals.eth < -RiskOffThreshold /\ signals.link < -RiskOffThreshold ) =>
          LET o == order'[i]
              wethValue == wethBalance' * ethPrice
              linkValue == linkBalance' * linkPrice
          IN /\ o.kind = "SWAP" /\ o.to = "USDC"
             /\ o.from = "WETH" => wethValue >= linkValue /\ o.amountIn = wethBalance' * 30
             /\ o.from = "LINK" => linkValue >= wethValue /\ o.amountIn = linkBalance' * 30
             /\ o.from \in {"WETH", "LINK"} ]_vars

\* the asset an instruction acquires on a buy signal, as the allocation
\* percentages group the holdings: "eth" (ETH and WETH), "link", or "none"
Acquired(o) ==
  IF o.kind = "WRAP" THEN "eth"
  ELSE IF o.from = "USDC" /\ o.to = "WETH" THEN "eth"
  ELSE IF o.from = "USDC" /\ o.to = "LINK" THEN "link"
  ELSE "none"

\* C21: for every acquire instruction that is dispatched (USDC to LINK, USDC
\* to WETH, wrap of ETH on a buy signal) the value of the acquired asset
\* after the trade, at current prices, is at most maxPositionPct of the
\* portfolio value.
C21_PositionCap ==
  [][ \A i \in Inv :
        (order[i] = NoOrder /\ order'[i] # NoOrder /\ Acquired(order'[i]) # "none") =>
          LET o == order'[i]
              portfolioUSD == getPortfolioUSD(curBal, ethPrice, linkPrice)'
              held   == IF Acquired(o) = "eth" THEN (ethBalance' + wethBalance') * ethPrice'
                                               ELSE linkBalance' * linkPrice'
              \* amountIn of a buy is in 1e-6 USDC; a wrap moves value within the asset
              bought == IF o.kind = "WRAP" THEN 0 ELSE o.amountIn
          IN held * 100 + bought <= config.maxPositionPct * portfolioUSD ]_vars

\* C22: every swap handed to the router has expectedOut > 0, computed from
\* the current price, and amountOutMinimum = expectedOut * (1 - slippageBps / 10000).
C22_MinimumOutput ==
  \A i \in Inv :
    (order[i] # NoOrder /\ order[i].kind = "SWAP") =>
      LET o == order[i]
          q == o.expectedOut \div 10000
          r == o.expectedOut % 10000
      IN /\ o.expectedOut > 0
         /\ o.amountOutMinimum > 0
         /\ o.amountOutMinimum =
              q * (10000 - config.slippageBps) + RoundDiv(r * (10000 - config.slippageBps), 10000)

Assets == {"eth", "link"}

historyOf(a) == IF a = "eth" THEN ethPriceHistory ELSE linkPriceHistory

\* the details of the latest generateSignal call for asset a
detailsOf(a) == IF a = "eth" THEN signals.ethDetails ELSE signals.linkDetails

\* generateSignal has been called
Signalled(a) == DOMAIN detailsOf(a) # {}

\* the rules of the cascade that need a signal of asset a
RulesOf(a) == IF a = "eth" THEN {5, 6, 7, 8, 9} ELSE {1, 2, 3, 4, 8, 9}

\* every sample of h has the same price
Constant(h) == \A j, k \in DOMAIN h : h[j].price = h[k].price

\* C23: for an asset whose price history holds fewer than smaSlow samples,
\* generateSignal returns composite 0 and the components sma, rsi, macd, bb
\* and trend all 0, and no rule of the cascade that needs a signal of that
\* asset fires.
C23_Warmup ==
  \A a \in Assets :
    (Signalled(a) /\ Len(historyOf(a)) < config.smaSlow) =>
      /\ signals[a] = 0
      /\ detailsOf(a) = NoDetails
      /\ \A r \in RulesOf(a) : ~Fires(r, curBal)

\* one sample short of the warm-up, with the averages of the asset apart
C23_Witness ==
  \E a \in Assets :
    /\ Signalled(a) /\ Len(historyOf(a)) = config.smaSlow - 1
    /\ indicators[a].ind.smaFast # indicators[a].ind.smaSlow
    /\ indicators[a].ind.rsi # 5000
    /\ signals[a] = 0

\* C24: the composite signal of each asset and each of its five sub-signals
\* lie in [-1, 1].
C24_SignalRange ==
  \A a \in Assets :
    /\ signals[a] \in -100..100
    /\ \A k \in DOMAIN detailsOf(a) : detailsOf(a)[k] \in -100..100

\* the SMA crossover of an asset is clamped at 1 while its RSI sub-signal is
\* negative, and the composite is not 0
C24_Witness ==
  \E a \in Assets :
    /\ Signalled(a) /\ detailsOf(a).sma = 100 /\ detailsOf(a).rsi < 0
    /\ signals[a] # 0

\* C25: the RSI of each asset lies in [0, 100] and its Bollinger %B in [0, 1].
C25_IndicatorRange ==
  \A a \in Assets :
    /\ indicators[a].ind.rsi \in 0..10000
    /\ indicators[a].ind.bbPctB \in 0..10000

\* a strictly falling series next to a constant one, RSI and bands computed
\* for both: RSI 0 and %B at its lower bound against an RSI near 100
C25_Witness ==
  /\ Len(ethPriceHistory) = 3 /\ Len(linkPriceHistory) = 3
  /\ ethPriceHistory[1].price > ethPriceHistory[2].price
  /\ ethPriceHistory[2].price > ethPriceHistory[3].price
  /\ Constant(linkPriceHistory)
  /\ config.bbPeriod = 3
  /\ indicators.eth.es.rsiAvgGain # null /\ indicators.link.es.rsiAvgGain # null
  /\ indicators.eth.ind.rsi = 0
  /\ indicators.eth.ind.bbPctB < 5000
  /\ indicators.link.ind.rsi > 9000

\* C26: edge cases give the neutral values: RSI 50 with fewer than
\* rsiPeriod + 1 samples, components 0 with fewer than smaSlow samples, RSI 50
\* when the average loss is 0, %B 0.5 when the standard deviation is 0, and
\* so a constant price series has RSI 50 and RSI sub-signal 0.
C26_Neutral ==
  \A a \in Assets :
    LET s == indicators[a]
        h == historyOf(a)
    IN /\ Len(h) < config.rsiPeriod + 1 => s.ind.rsi = 5000
       /\ (Signalled(a) /\ Len(h) < config.smaSlow) => detailsOf(a) = NoDetails
       /\ s.es.rsiAvgLoss = <<0>> => s.ind.rsi = 5000
       /\ (Len(h) >= config.bbPeriod /\ Constant(h)) => s.ind.bbPctB = 5000
       /\ (h # <<>> /\ Constant(h)) =>
            /\ s.ind.rsi = 5000
            /\ Signalled(a) => detailsOf(a).rsi = 0

Within(x, target, m, P) ==
  Abs(x - target) * 2^(Precision - 6) <= m * P * Unit

Untimed(h) == [k \in DOMAIN h |-> [time |-> 0, price |-> h[k].price]]

\* the indicators of an asset after the first n samples of h, from a fresh state
RECURSIVE Replay(_, _)
Replay(h, n) ==
  IF n = 0 THEN FreshIndicators ELSE updateIndicators(Replay(h, n - 1), SubSeq(h, 1, n))

\* C28: the IndicatorState, the accumulators and the signal of an asset are
\* those that a replay of its price samples, in their order, from the fresh
\* state yields, whatever the timestamps of the samples, the wall clock and
\* the failed fetches in between.
C28_Deterministic ==
  \A a \in Assets :
    LET u == Untimed(historyOf(a))
        r == Replay(u, Len(u))
    IN /\ indicators[a] = r
       /\ Signalled(a) => /\ signals[a] = generateSignal(r, u).composite
                           /\ detailsOf(a) = generateSignal(r, u).details

\* samples taken at different wall-clock times, warm-up complete, and a
\* signal that is not neutral
C28_Witness ==
  /\ Len(ethPriceHistory) >= config.smaSlow
  /\ ethPriceHistory[1].time # ethPriceHistory[Len(ethPriceHistory)].time
  /\ now > ethPriceHistory[1].time
  /\ signals.eth # 0 /\ indicators.eth.ind.macdHist # 0

\* the latest price of asset a
priceOf(a) == IF a = "eth" THEN ethPrice ELSE linkPrice

\* C29: the price history of each asset never holds more than 500 samples;
\* a step that changes it appends the sample { now, latest price } at the
\* end, keeps the earlier samples in their order, and drops exactly the oldest
\* one when the history was full.
C29_PriceFIFO ==
  [][\A a \in Assets :
       /\ Len(historyOf(a)') <= PriceHistoryCap
       /\ historyOf(a)' # historyOf(a) =>
            historyOf(a)' =
              Append(IF Len(historyOf(a)) = PriceHistoryCap
                     THEN Tail(historyOf(a)) ELSE historyOf(a),
                     [time |-> now, price |-> priceOf(a)'])]_vars

\* a full history that has lost its two oldest samples to two new ones
C29_Witness ==
  /\ Len(ethPriceHistory) = PriceHistoryCap
  /\ ethPriceHistory[1] = OldSamples(PriceHistoryCap, 1000)[3]
  /\ ethPriceHistory[PriceHistoryCap - 2] = OldSamples(PriceHistoryCap, 1000)[PriceHistoryCap]
  /\ ethPriceHistory[PriceHistoryCap - 1].price = 2000
  /\ ethPriceHistory[PriceHistoryCap].price = 2000

\* C30: the trade history never holds more than 100 records; a step that
\* changes it appends the record of the trade at the end, keeps the earlier
\* records in their order, and drops exactly the oldest one when the history
\* was full.
C30_TradeFIFO ==
  [][/\ Len(tradeHistory') <= TradeHistoryCap
     /\ tradeHistory' # tradeHistory =>
          /\ tradeHistory' # <<>>
          /\ SubSeq(tradeHistory', 1, Len(tradeHistory') - 1) =
               (IF Len(tradeHistory) = TradeHistoryCap
                THEN Tail(tradeHistory) ELSE tradeHistory)
          /\ tradeHistory'[Len(tradeHistory')].block = lastBlock
          /\ tradesExecuted' = tradesExecuted + 1]_vars

\* a full history that has lost its two oldest records to two new ones
C30_Witness ==
  /\ Len(tradeHistory) = TradeHistoryCap
  /\ tradeHistory[1] = OldTrades(TradeHistoryCap)[3]
  /\ tradeHistory[TradeHistoryCap - 2] = OldTrades(TradeHistoryCap)[TradeHistoryCap]
  /\ tradeHistory[TradeHistoryCap - 1].block < tradeHistory[TradeHistoryCap].block

\* the signal threshold of rule r holds
SignalHolds(r) ==
  CASE r \in 1..3 -> signals.link > config.minConfluence
    [] r = 4      -> signals.link < -config.minConfluence
    [] r \in 5..6 -> signals.eth > config.minConfluence
    [] r = 7      -> signals.eth < -config.minConfluence
    [] r \in 8..9 -> signals.eth < -RiskOffThreshold /\ signals.link < -RiskOffThreshold

\* invocation i leaves the balance refresh in this step with the guards of
\* executeStrategy passed, so that the cascade is evaluated
Decides(i) ==
  /\ pc[i] = "balances" /\ pc'[i] # "balances"
  /\ running /\ ~drawdownHalted /\ Len(ethPriceHistory) >= config.smaSlow
  /\ risk'.called /\ risk'.ok

\* C31: when the cascade is evaluated, the instruction emitted is that of the
\* first rule, in the order LINK buy (1-3), LINK sell (4), ETH buy (5-6), ETH
\* sell (7), risk-off (8-9), whose signal threshold and balance/sizing
\* precondition both hold; rules before it whose threshold holds but whose
\* precondition fails emit nothing; when no rule qualifies nothing is emitted.
C31_Cascade ==
  [][ \A i \in Inv :
        Decides(i) =>
          LET m == {r \in Rules : SignalHolds(r) /\ Fires(r, curBal')}
          IN IF m = {}
             THEN order'[i] = NoOrder /\ emitted'[i] = 0 /\ pc'[i] = "idle"
             ELSE /\ emitted'[i] = 1
                  /\ order'[i].rule \in m
                  /\ \A q \in m : order'[i].rule <= q
                  /\ order'[i] = Dispatch(Instr(order'[i].rule, curBal')) ]_vars

\* the ETH buy rule has been dispatched although the threshold of the LINK
\* buy rules held: their preconditions failed and evaluation went on
C31_Witness ==
  \E i \in Inv :
    /\ order[i] # NoOrder /\ order[i].rule = 5 /\ emitted[i] = 1
    /\ SignalHolds(1) /\ ~Fires(1, curBal) /\ ~Fires(2, curBal) /\ ~Fires(3, curBal)

\* C32: on a buy signal an instruction that uses a lower-priority funding
\* source is emitted only when every higher-priority source is unavailable:
\* the WETH sale only with a USDC balance not above 1, the wrap only with a
\* USDC balance not above 1 and a WETH balance not above 0.001; the amount is
\* the (available) balance of the source times min(sizingCap, |signal|).
C32_FundingPriority ==
  [][ \A i \in Inv :
        (Decides(i) /\ order'[i] # NoOrder /\ order'[i].rule \in {1, 2, 3, 5, 6}) =>
          LET o == order'[i]
              sig == IF o.rule <= 3 THEN signals.link ELSE signals.eth
          IN /\ sig > config.minConfluence
             /\ o.rule = 2 => usdcBalance' <= 10000
             /\ o.rule \in {3, 6} => usdcBalance' <= 10000 /\ wethBalance' <= 10
             /\ o.rule \in {1, 5} => o.amountIn = usdcBalance' * Min(50, Abs(sig))
             /\ o.rule = 2 => o.amountIn = wethBalance' * Min(50, Abs(sig))
             /\ o.rule = 3 =>
                  o.amountIn = (ethBalance' - config.gasReserveETH) * Min(50, Abs(sig))
             /\ o.rule = 6 =>
                  o.amountIn = (ethBalance' - config.gasReserveETH) * Min(30, Abs(sig)) ]_vars

\* C36: every swap emitted by the cascade has an amountIn of at most half of
\* the balance of its source asset as of the balance refresh, every wrap an
\* amount of at most half of ethBalance - gasReserveETH, so that the ETH left
\* after a wrap is at least gasReserveETH.
C36_HalfBalance ==
  [][ \A i \in Inv :
        (Decides(i) /\ order'[i] # NoOrder) =>
          LET o == order'[i]
              source == CASE o.from = "USDC" -> usdcBalance'
                          [] o.from = "WETH" -> wethBalance'
                          [] o.from = "LINK" -> linkBalance'
                          [] o.from = "ETH"  -> ethBalance' - config.gasReserveETH
          IN /\ o.amountIn <= 50 * source
             /\ o.kind = "WRAP" =>
                  ethBalance' * 100 - o.amountIn >= config.gasReserveETH * 100 ]_vars

\* a swap of exactly half of the source balance, on a signal beyond the cap
C36_Witness ==
  \E i \in Inv :
    /\ order[i] # NoOrder /\ order[i].kind = "SWAP" /\ order[i].from = "WETH"
    /\ wethBalance > 0 /\ order[i].amountIn = 50 * wethBalance
    /\ Abs(signals.eth) > 50

\* the moves of an invocation of mainLoop from one await to the next
TickOrder ==
  { <<"idle", "block">>, <<"block", "idle">>, <<"block", "gas">>, <<"gas", "price1">>,
    <<"price1", "price2">>, <<"price1", "balances">>, <<"price2", "balances">>,
    <<"balances", "idle">>, <<"balances", "approve">>, <<"balances", "submit">>,
    <<"approve", "submit">>, <<"approve", "idle">>, <<"submit", "receipt">>,
    <<"submit", "idle">>, <<"receipt", "idle">> }

\* C33: the steps of a tick run in the order height, fee, prices (with
\* indicators and signals), balances, peak, risk check, decision; and the
\* risk check and the decision of a tick read prices, indicators, signals and
\* balances that were produced in this tick: no price or balance read of the
\* tick has failed when checkRisk is called.
C33_TickOrder ==
  [][ \A i \in Inv :
        /\ pc'[i] # pc[i] => <<pc[i], pc'[i]>> \in TickOrder
        /\ ( /\ InWatchedTick(i) /\ AfterRefresh(i)
             /\ running /\ ~drawdownHalted /\ Len(ethPriceHistory) >= config.smaSlow ) =>
             /\ risk'.called /\ risk'.block = lastBlock
             /\ portfolioPeakUSD' >= getPortfolioUSD(curBal', ethPrice, linkPrice)
             /\ failed'[i] \cap {"price", "balance"} = {} ]_vars

\* C34: an accumulator of an asset that is not null does not become null;
\* the RSI accumulators stay null while fewer than rsiPeriod + 1 samples
\* exist, are seeded from the simple averages of the gains and losses, and
\* from then on follow the Wilder recursion.
C34_Accumulators ==
  [][ \A a \in Assets :
        LET es  == indicators[a].es
            es2 == indicators'[a].es
            h2  == historyOf(a)'
            p   == config'.rsiPeriod
        IN /\ \A k \in DOMAIN es : es[k] # null => es2[k] # null
           /\ (es.rsiAvgGain = null /\ Len(h2) < p + 1) =>
                es2.rsiAvgGain = null /\ es2.rsiAvgLoss = null
           /\ historyOf(a)' # historyOf(a) =>
                LET seed   == calcRSI(h2, p, null, null)
                    wilder == calcRSI(h2, p, es.rsiAvgGain, es.rsiAvgLoss)
                IN IF es.rsiAvgGain = null
                   THEN es2.rsiAvgGain = seed.avgGain /\ es2.rsiAvgLoss = seed.avgLoss
                   ELSE es2.rsiAvgGain = wilder.avgGain /\ es2.rsiAvgLoss = wilder.avgLoss ]_vars

\* C35: with config unchanged, a TradeRecord that is appended lies at least
\* cooldownBlocks heights after the record before it, whatever the timing of
\* the timer firings and of the completions of the awaited calls.
C35_CooldownSeparation ==
  [][ (tradeHistory' # tradeHistory /\ tradeHistory # <<>> /\ config' = config) =>
        tradeHistory'[Len(tradeHistory')].block - tradeHistory[Len(tradeHistory)].block
          >= config.cooldownBlocks ]_vars

\* C37: tradesExecuted goes up by one exactly when a record is appended, the
\* length of tradeHistory is min(100, tradesExecuted), lastTradeBlock is at
\* most lastBlock, and lastTradeBlock is the block of the newest record when
\* there is one.
C37_Bookkeeping ==
  [][ /\ tradesExecuted' = IF tradeHistory' # tradeHistory THEN tradesExecuted + 1
                           ELSE tradesExecuted
      /\ Len(tradeHistory') = Min(TradeHistoryCap, tradesExecuted')
      /\ lastTradeBlock' <= lastBlock'
      /\ tradeHistory' # <<>> =>
           lastTradeBlock' = tradeHistory'[Len(tradeHistory')].block ]_vars

\* more trades have been recorded than the history holds, the newest at a
\* height before the current one
C37_Witness ==
  /\ tradesExecuted > TradeHistoryCap /\ Len(tradeHistory) = TradeHistoryCap
  /\ lastTradeBlock > 0 /\ lastTradeBlock < lastBlock
  /\ tradeHistory[TradeHistoryCap].block = lastTradeBlock

\* the actions each POST /api/control handler tests for
BotAccepted == {"start", "stop", "reset-drawdown"}
DashAccepted == {"start", "stop"}

\* C38: a control request whose action is none of the accepted ones changes no
\* state: in the trading bot running, the halt flag, the peak and the config keep
\* their values; in the dashboard server botState keeps its value and the
\* request is answered with status 400.
C38_UnknownAction ==
  [][ /\ \A a \in ControlActions \ BotAccepted :
           PostControl(a) => UNCHANGED <<running, drawdownHalted, portfolioPeakUSD, config>>
      /\ \A a \in DashActions \ DashAccepted :
           DashPostControl(a) => /\ UNCHANGED botState
                                 /\ reply'.dashboard.status = 400 ]_vars

\* both servers have answered a "pause" request, the trading bot while halted
\* by the drawdown check and the dashboard while running
C38_Witness ==
  /\ reply.bot.action = "pause" /\ drawdownHalted /\ reply.bot.running
  /\ reply.dashboard.action = "pause" /\ reply.dashboard.status = 400 /\ botState.isRunning

\* checkAndTrade invocations that have not reached their setTimeout yet
RebInProgress == {i \in Inv : reb.pc[i] # "idle"}

\* C39: in the polling loop of the rebalancing bot there is always exactly one
\* invocation in progress or exactly one timer pending, never both and never
\* two of either; an invocation that ends arms one timer, of 1 s when its try
\* block ran to the end and of 5 s when it threw; a block is processed only at
\* a height above every height processed before; priceHistory never holds more
\* than 2 * volatilityWindow entries; and checkAndTrade is invoked again and
\* again for ever.
C39_PollingLoop ==
  /\ [](/\ Cardinality(RebInProgress) + Len(reb.timers) = 1
        /\ Len(reb.priceHistory) <= 2 * rebCONFIG.volatilityWindow)
  /\ [][ /\ \A i \in Inv :
              (reb.pc[i] # "idle" /\ reb'.pc[i] = "idle") =>
                 /\ reb'.outcome \in {"returned", "threw"}
                 /\ reb'.timers = <<IF reb'.outcome = "threw" THEN ErrorDelay
                                    ELSE NormalDelay>>
                 /\ reb'.outcome = "threw" =>
                      /\ reb.pc[i] = "block"
                      /\ [reb' EXCEPT !.pc = reb.pc, !.timers = reb.timers,
                                      !.outcome = reb.outcome] = reb
         /\ reb'.lastBlock >= reb.lastBlock
         /\ (reb'.blockCount # reb.blockCount \/ reb'.priceHistory # reb.priceHistory) =>
               /\ reb'.lastBlock > reb.lastBlock
               /\ reb'.blockCount = reb.blockCount + 1 ]_vars
  /\ []<>(\E i \in Inv : reb.pc[i] = "block")

\* the loop is waiting 5 s after a failed getBlockNumber, with a full
\* priceHistory that has dropped its oldest entry and a trade executed
C39_Witness ==
  /\ reb.outcome = "threw" /\ reb.timers = <<ErrorDelay>> /\ RebInProgress = {}
  /\ Len(reb.priceHistory) = 2 * rebCONFIG.volatilityWindow
  /\ reb.blockCount > 2 * rebCONFIG.volatilityWindow
  /\ reb.tradesExecuted > 0

====
